---------------------------- MODULE Spec2Model ----------------------------
(***************************************************************************)
(* Model of the image-detection web application.                           *)
(*                                                                         *)
(*   - the in-memory analysis cache (lib/ai-generation-detection.ts),      *)
(*   - the two upload handlers (POST) that use it,                         *)
(*   - the backend status handlers (GET),                                  *)
(*   - enhancedClassifyImage and sendToBackend.                            *)
(*                                                                         *)
(* Numbers are JavaScript numbers held in hundredths (7000 is 70.00);      *)
(* a division rounds down to the hundredth.                                *)
(***************************************************************************)
EXTENDS Integers, Sequences, FiniteSets, TLC

(***************************************************************************)
(* JavaScript values.  A value is a record [t, v]: t is the type tag and   *)
(* v the payload (hundredths for a number, 0/1 for a boolean).             *)
(***************************************************************************)
Undefined == [t |-> "undefined", v |-> 0]
Null      == [t |-> "null", v |-> 0]
NaN       == [t |-> "nan", v |-> 0]
Num(n)    == [t |-> "num", v |-> n]
Bool(b)   == [t |-> "bool", v |-> IF b THEN 1 ELSE 0]
True      == Bool(TRUE)
False     == Bool(FALSE)

IsNumber(x) == x.t = "num"

\* ToNumber of the language: undefined -> NaN, null -> 0, booleans -> 0/1.
ToNumber(x) ==
  CASE x.t = "num"  -> x
    [] x.t = "null" -> Num(0)
    [] x.t = "bool" -> Num(x.v * 100)
    [] OTHER        -> NaN

\* Truthiness: undefined, null, NaN, false and 0 are falsy.
Truthy(x) ==
  CASE x.t = "bool" -> x.v = 1
    [] x.t = "num"  -> x.v # 0
    [] OTHER        -> FALSE

\* a + b, a * (p/q), Math.min, Math.max: NaN is contagious.
JsAdd(a, b) ==
  LET x == ToNumber(a)  y == ToNumber(b)
  IN  IF x.t = "nan" \/ y.t = "nan" THEN NaN ELSE Num(x.v + y.v)

JsScale(a, p, q) ==
  LET x == ToNumber(a)
  IN  IF x.t = "nan" THEN NaN ELSE Num((x.v * p) \div q)

JsMin(a, b) ==
  LET x == ToNumber(a)  y == ToNumber(b)
  IN  IF x.t = "nan" \/ y.t = "nan" THEN NaN
      ELSE IF x.v <= y.v THEN x ELSE y

JsMax(a, b) ==
  LET x == ToNumber(a)  y == ToNumber(b)
  IN  IF x.t = "nan" \/ y.t = "nan" THEN NaN
      ELSE IF x.v >= y.v THEN x ELSE y

\* a < b and a > b: false as soon as one side is NaN.
JsLt(a, b) ==
  LET x == ToNumber(a)  y == ToNumber(b)
  IN  x.t = "num" /\ y.t = "num" /\ x.v < y.v

JsGt(a, b) == JsLt(b, a)

(***************************************************************************)
(* The analysis cache: a Map<string, any>.  A Map iterates in insertion    *)
(* order, so it is a sequence of entries [key, value] without duplicate    *)
(* keys; the first element is what keys().next() returns.                  *)
(***************************************************************************)
MAX_CACHE_SIZE == 100

CacheKeys(c) == {c[i].key : i \in 1..Len(c)}

IndexOf(c, k) == CHOOSE i \in 1..Len(c) : c[i].key = k

\* Variants of set, for comparison: one that keeps the value of an existing
\* key, and one that moves an existing key to the end (as an LRU would).
MapSetIfAbsent(c, k, val) ==
  IF k \in CacheKeys(c) THEN c ELSE Append(c, [key |-> k, value |-> val])

MapSetRefresh(c, k, val) ==
  Append(SelectSeq(c, LAMBDA e : e.key # k), [key |-> k, value |-> val])

\* Map.prototype.set: an existing key keeps its place and gets the new
\* value, a new key is appended.
MapSet(c, k, val) ==
  IF k \in CacheKeys(c)
  THEN [c EXCEPT ![IndexOf(c, k)].value = val]
  ELSE Append(c, [key |-> k, value |-> val])

\* Map.prototype.delete.
MapDelete(c, k) == SelectSeq(c, LAMBDA e : e.key # k)

\* A presence check that never finds anything (a handler without a cache),
\* for comparison.
cacheDisabled(c, imageHash) == FALSE

hasAnalysisInCache(c, imageHash) == imageHash \in CacheKeys(c)

\* A read that returns the oldest entry whatever the key, for comparison.
readOldestEntry(c, imageHash) == IF c = <<>> THEN Undefined ELSE c[1].value

getAnalysisFromCache(c, imageHash) ==
  IF imageHash \in CacheKeys(c) THEN c[IndexOf(c, imageHash)].value ELSE Undefined

\* A store that keeps the result already stored under the key, for
\* comparison.
storeKeepsExisting(c, imageHash, result) == MapSetIfAbsent(c, imageHash, result)

\* A store without the size check, for comparison.
storeWithoutEviction(c, imageHash, result) == MapSet(c, imageHash, result)

storeAnalysisInCache(c, imageHash, result) ==
  LET set == MapSet(c, imageHash, result)
  IN  IF Len(set) > MAX_CACHE_SIZE
      THEN MapDelete(set, set[1].key)
      ELSE set

clearAnalysisCache(c) == <<>>

(***************************************************************************)
(* generateImageHash.  A buffer is a sequence of bytes, a string a         *)
(* sequence of UTF-16 code units.  The 32-bit hash is kept as two 16-bit   *)
(* halves [hi, lo] of its two's-complement bit pattern: "<< 5" and "& hash"*)
(* reduce modulo 2^32, and the subtraction and addition in between are     *)
(* exact in a double, so the whole step is arithmetic modulo 2^32.         *)
(***************************************************************************)
HASH_PREFIX_LENGTH == 1000

\* the code unit of the base64 digit for a 6-bit value
Base64CodeUnit(sextet) ==
  IF sextet < 26 THEN 65 + sextet
  ELSE IF sextet < 52 THEN 97 + (sextet - 26)
  ELSE IF sextet < 62 THEN 48 + (sextet - 52)
  ELSE IF sextet = 62 THEN 43 ELSE 47

\* byte k (1..3) of the 3-byte group g of the buffer, 0 beyond the end
GroupByte(bytes, g, k) == IF 3 * g + k <= Len(bytes) THEN bytes[3 * g + k] ELSE 0

\* code unit i of buffer.toString("base64"); 61 is the padding "="
Base64At(bytes, g, p) ==
  CASE p = 0 -> Base64CodeUnit(GroupByte(bytes, g, 1) \div 4)
    [] p = 1 -> Base64CodeUnit(((GroupByte(bytes, g, 1) % 4) * 16) + (GroupByte(bytes, g, 2) \div 16))
    [] p = 2 -> IF Len(bytes) - 3 * g < 2 THEN 61
                ELSE Base64CodeUnit(((GroupByte(bytes, g, 2) % 16) * 4) + (GroupByte(bytes, g, 3) \div 64))
    [] p = 3 -> IF Len(bytes) - 3 * g < 3 THEN 61
                ELSE Base64CodeUnit(GroupByte(bytes, g, 3) % 64)

\* buffer.toString("base64")
ToBase64(bytes) ==
  [i \in 1..(4 * ((Len(bytes) + 2) \div 3)) |-> Base64At(bytes, (i - 1) \div 4, (i - 1) % 4)]

\* A substring that keeps the whole string, for comparison.
WholeString(str, start, end) == str

\* str.substring(start, end) for 0 <= start <= end
Substring(str, start, end) ==
  SubSeq(str, start + 1, IF end <= Len(str) THEN end ELSE Len(str))

\* hash = (hash << 5) - hash + char; hash = hash & hash
HashStep(hash, char) ==
  [lo |-> (((hash.lo * 32) % 65536) - hash.lo + char + 65536) % 65536,
   hi |-> (((hash.hi * 32 + ((hash.lo * 32) \div 65536)) % 65536) - hash.hi + 131072
           + (IF ((hash.lo * 32) % 65536) - hash.lo + char < 0 THEN -1
              ELSE IF ((hash.lo * 32) % 65536) - hash.lo + char >= 65536 THEN 1 ELSE 0)) % 65536]

\* for (let i = 0; i < str.length; i++): the loop state is [hash, i], run up
\* to position j; the range is split in halves, which runs the same steps in
\* the same order and keeps the evaluation shallow
RECURSIVE HashLoop(_, _, _)
HashLoop(state, str, j) ==
  IF state.i > j THEN state
  ELSE IF state.i = j
       THEN [hash |-> HashStep(state.hash, str[state.i]), i |-> state.i + 1]
       ELSE HashLoop(HashLoop(state, str, (state.i + j) \div 2), str, j)

HexDigits == <<"0", "1", "2", "3", "4", "5", "6", "7", "8", "9", "a", "b", "c", "d", "e", "f">>

\* the four hex digits of a 16-bit value
Hex16(n) ==
  <<HexDigits[(n \div 4096) + 1], HexDigits[((n \div 256) % 16) + 1],
    HexDigits[((n \div 16) % 16) + 1], HexDigits[(n % 16) + 1]>>

RECURSIVE StripZeros(_)
StripZeros(digits) ==
  IF Len(digits) > 1 /\ Head(digits) = "0" THEN StripZeros(Tail(digits)) ELSE digits

\* hash.toString(16): a minus sign and the magnitude for a negative hash
Int32ToHex(hash) ==
  IF hash.hi < 32768
  THEN StripZeros(Hex16(hash.hi) \o Hex16(hash.lo))
  ELSE <<"-">> \o StripZeros(
         Hex16(65535 - hash.hi + (IF hash.lo = 0 THEN 1 ELSE 0)) \o Hex16((65536 - hash.lo) % 65536))

HashOfString(str) ==
  Int32ToHex(HashLoop([hash |-> [hi |-> 0, lo |-> 0], i |-> 1], str, Len(str)).hash)

generateImageHash(buffer) ==
  HashOfString(Substring(ToBase64(buffer), 0, HASH_PREFIX_LENGTH))

\* Buffers: `length` bytes of a pattern, then a tail.  PrefixBytes bytes fill
\* the hashed prefix exactly, so the lengths around it give buffers that agree
\* on the prefix and differ after it, and buffers that differ inside it; the
\* short ones end in base64 padding.
PrefixBytes == (HASH_PREFIX_LENGTH \div 4) * 3
Buffer(pattern, length, tail) == [i \in 1..length |-> (i * pattern) % 256] \o tail
HashBuffers ==
  {Buffer(pattern, length, tail) :
     pattern \in {7, 13},
     length \in {0, 1, 2, PrefixBytes - 1, PrefixBytes},
     tail \in {<<>>, <<1>>, <<2, 3>>}}

\* whether two strings have the same first n code units
SamePrefix(s, t, n) ==
  \A i \in 1..n : /\ (i <= Len(s)) = (i <= Len(t))
                  /\ i <= Len(s) => s[i] = t[i]

(***************************************************************************)
(* detectAIGeneratedImage: the pixel counters are inputs; the verdict and  *)
(* the confidence are computed from the artifact flags as the code does.   *)
(* flags is the set of artifacts whose percentage passed its threshold.    *)
(***************************************************************************)
ArtifactNames ==
  {"perfect symmetry", "uncanny valley features", "artificial textures",
   "impossible lighting", "impossible reflections", "digital artifacts",
   "sci-fi elements", "anime-style features", "fantasy elements",
   "unrealistic colors", "animal-human hybrid features"}

ArtifactOrder ==
  <<"perfect symmetry", "uncanny valley features", "artificial textures",
    "impossible lighting", "impossible reflections", "digital artifacts",
    "sci-fi elements", "anime-style features", "fantasy elements",
    "unrealistic colors", "animal-human hybrid features">>

ArtifactConfidence(a) ==
  CASE a = "anime-style features"         -> 2000
    [] a = "fantasy elements"             -> 1500
    [] a = "unrealistic colors"           -> 1500
    [] a = "animal-human hybrid features" -> 2500
    [] OTHER                              -> 1000

RECURSIVE ArtifactSum(_)
ArtifactSum(S) ==
  IF S = {} THEN 0
  ELSE LET x == CHOOSE y \in S : TRUE IN ArtifactConfidence(x) + ArtifactSum(S \ {x})

Elem(text) == [text |-> text, model |-> ""]

detectAIGeneratedImage(flags) ==
  LET has(a) == a \in flags
      isAIGenerated ==
        \/ Cardinality(flags) >= 3
        \/ has("perfect symmetry") /\ (has("uncanny valley features") \/ has("artificial textures"))
        \/ has("digital artifacts") /\ has("sci-fi elements")
        \/ has("uncanny valley features") /\ has("artificial textures")
        \/ has("anime-style features")
        \/ has("fantasy elements")
        \/ has("animal-human hybrid features")
        \/ has("unrealistic colors") /\ has("digital artifacts") /\ has("sci-fi elements")
      raw == 7000 + ArtifactSum(flags)
      confidence == IF isAIGenerated THEN (IF raw <= 9800 THEN raw ELSE 9800) ELSE 0
  IN  [isAIGenerated         |-> isAIGenerated,
       confidence            |-> confidence,
       hasAnimeFeatures      |-> has("anime-style features"),
       hasFantasyElements    |-> has("fantasy elements"),
       hasUnrealisticColors  |-> has("unrealistic colors"),
       hasAnimalHumanHybrids |-> has("animal-human hybrid features"),
       detectedArtifacts     |->
         [i \in 1..Len(SelectSeq(ArtifactOrder, has)) |->
            Elem(SelectSeq(ArtifactOrder, has)[i])]]

(***************************************************************************)
(* The external detector's answer as enhancedClassifyImage sees it.        *)
(* sendToBackend returns either the parsed JSON body of the first          *)
(* successful POST or its own error object.                                *)
(***************************************************************************)
MissingName == "(undefined)"

\* frequency_features of the response: absent, or the three measured values
NoFrequencyFeatures ==
  [present |-> FALSE, low_to_high_ratio |-> 0, mid_to_high_ratio |-> 0, filtered_std |-> 0]

FrequencyFeatures(lowToHigh, midToHigh, std) ==
  [present |-> TRUE, low_to_high_ratio |-> lowToHigh, mid_to_high_ratio |-> midToHigh,
   filtered_std |-> std]

BackendError ==
  [error |-> TRUE, is_real |-> Null, confidence |-> Null,
   model_results |-> <<>>, frequency_features |-> NoFrequencyFeatures,
   detected_artifacts |-> <<>>, heatmap_url |-> FALSE]

BackendJson(isReal, conf, mrs, freq, arts, heat) ==
  [error |-> FALSE, is_real |-> isReal, confidence |-> conf,
   model_results |-> mrs, frequency_features |-> freq,
   detected_artifacts |-> arts, heatmap_url |-> heat]

\* backend model weight chosen by the substring found in the model name
ModelWeight(modelName) ==
  CASE modelName = "faceforensics" -> 500
    [] modelName = "recurrent_cnn" -> 300
    [] modelName = "frequency_net" -> 400
    [] modelName = "ensemble"      -> 550
    [] OTHER                       -> 450

Feature(name, model, weight, isRealIndicator) ==
  [name |-> name, model |-> model, weight |-> weight, isRealIndicator |-> isRealIndicator]

\* The for-loop over backendResult.model_results.  acc carries the scores
\* and lists; an entry without model_name throws at modelName.includes and
\* leaves what the earlier entries already added.
RECURSIVE ProcessModelResults(_, _)
ProcessModelResults(acc, mrs) ==
  IF mrs = <<>> THEN acc
  ELSE
    LET mr == Head(mrs)
        isRealIndicator == mr.prediction = "Real"
        \* Number.parseFloat(modelResult.weight) || 1.0
        factor == IF mr.weight = 0 THEN 100 ELSE mr.weight
        weight == ModelWeight(mr.model_name)
        added == (weight * factor)
    IN  IF mr.model_name = MissingName
        THEN [acc EXCEPT !.threw = TRUE]
        ELSE ProcessModelResults(
               [acc EXCEPT
                  !.features = Append(@, Feature("Backend", mr.model_name, (weight * factor) \div 100, isRealIndicator)),
                  !.real = IF isRealIndicator THEN @ + added ELSE @,
                  !.ai = IF isRealIndicator THEN @ ELSE @ + added,
                  !.natural = IF isRealIndicator
                              THEN Append(@, [text |-> "real photo", model |-> mr.model_name])
                              ELSE @,
                  !.artifacts = IF isRealIndicator
                                THEN @
                                ELSE Append(@, [text |-> "AI generated", model |-> mr.model_name])],
               Tail(mrs))

\* processFrequencyAnalysis: "none" for null, else whether the features look
\* generated (one of the three values under its threshold).
processFrequencyAnalysis(backendResult) ==
  IF backendResult.error \/ ~backendResult.frequency_features.present
  THEN "none"
  ELSE LET f == backendResult.frequency_features
       IN  IF \/ f.low_to_high_ratio < 50
              \/ f.mid_to_high_ratio < 30
              \/ f.filtered_std < 1000
           THEN "ai" ELSE "natural"

\* lines 134-163: the frequency analysis of the backend
FrequencyStep(acc, freq) ==
  CASE freq = "ai" ->
         [acc EXCEPT
            !.ai = @ + 40000,
            !.artifacts = @ \o <<Elem("frequency domain analysis: AI generated"),
                                 Elem("unusual frequency patterns detected")>>,
            !.features = Append(@, Feature("Frequency Domain Analysis", "", 400, FALSE))]
    [] freq = "natural" ->
         [acc EXCEPT
            !.real = @ + 32000,
            !.natural = Append(@, Elem("frequency domain analysis: natural image")),
            !.features = Append(@, Feature("Frequency Domain Analysis", "", 400, TRUE))]
    [] OTHER -> acc

\* lines 165-191: the backend's artifact list and its heatmap
BackendArtifactsStep(acc, backendResult) ==
  [acc EXCEPT
     !.artifacts = @ \o backendResult.detected_artifacts,
     !.features = IF backendResult.heatmap_url
                  THEN Append(@, Feature("Manipulation Heatmap", "", 0, FALSE))
                  ELSE @]

\* what follows the loop over model_results, unless the loop threw
AfterModelResults(acc, backendResult) ==
  IF acc.threw THEN acc
  ELSE BackendArtifactsStep(FrequencyStep(acc, processFrequencyAnalysis(backendResult)),
                            backendResult)

\* A check that takes whatever sendToBackend returned, for comparison.
AnyBackendResult(backendResult) == TRUE

\* backendResult && !backendResult.error (lines 107 and 445)
UsableBackend(backendResult) == ~backendResult.error

\* lines 107-195: what a usable backend result adds before the local checks
IntegrateBackend(acc0, backendResult) ==
  IF ~UsableBackend(backendResult) THEN acc0
  ELSE AfterModelResults(ProcessModelResults(acc0, backendResult.model_results),
                         backendResult)

(***************************************************************************)
(* enhancedClassifyImage, lines 201-434: the local checks.  The pixel and  *)
(* file-name heuristics are inputs (loc); what they add to the scores and  *)
(* lists is computed as in the code.                                       *)
(***************************************************************************)
\* countRealPhotoIndicators: the element texts of the model that contain
\* one of the fifteen indicator substrings
RealIndicatorTexts ==
  {"enhanced natural image detection", "enhanced real human face detection",
   "enhanced outdoor portrait detection", "enhanced studio portrait detection",
   "professional portrait detected", "camera metadata indicators detected",
   "frequency domain analysis: natural image",
   "studio portrait detected", "outdoor portrait detected",
   "natural lighting conditions", "natural skin texture", "natural facial asymmetry"}

countRealPhotoIndicators(naturalElements) ==
  Cardinality({i \in 1..Len(naturalElements) :
                 naturalElements[i].model = "" /\ naturalElements[i].text \in RealIndicatorTexts})

NaturalImageStep(acc, nat) ==
  IF nat.isNaturalImage
  THEN [acc EXCEPT
          !.real = @ + 4000,
          !.natural = Append(@, Elem("enhanced natural image detection")) \o nat.details,
          !.features = Append(@, Feature("Enhanced Natural Image Detection", "", 400, TRUE))]
  ELSE acc

FaceStep(acc, face) ==
  IF ~face.hasFace THEN acc
  ELSE IF face.isRealHuman
  THEN [acc EXCEPT
          !.real = @ + 7000,
          !.natural = Append(@, Elem("enhanced real human face detection")) \o face.naturalFeatures,
          !.features = Append(@, Feature("Enhanced Face Analysis", "", 350, TRUE))]
  ELSE [acc EXCEPT
          !.ai = @ + 3000,
          !.artifacts = Append(@, Elem("artificial face detected")) \o face.artificialFeatures,
          !.features = Append(@, Feature("Enhanced Face Analysis", "", 350, FALSE))]

PortraitStep(acc, portrait) ==
  IF ~portrait.isPortraitPhoto THEN acc
  ELSE IF portrait.isOutdoorPortrait
  THEN [acc EXCEPT
          !.real = @ + 6000,
          !.natural = Append(@, Elem("enhanced outdoor portrait detection")),
          !.features = Append(@, Feature("Enhanced Outdoor Portrait Detection", "", 350, TRUE))]
  ELSE IF portrait.isStudioPortrait
  THEN [acc EXCEPT
          !.real = @ + 6000,
          !.natural = Append(@, Elem("enhanced studio portrait detection")),
          !.features = Append(@, Feature("Enhanced Studio Portrait Detection", "", 380, TRUE))]
  ELSE [acc EXCEPT
          !.real = @ + 5000,
          !.natural = Append(@, Elem("professional portrait detected")),
          !.features = Append(@, Feature("Professional Portrait Detection", "", 300, TRUE))]

MetadataStep(acc, meta) ==
  IF ~meta.isLikelyRealPhoto THEN acc
  ELSE [acc EXCEPT
          !.real = @ + 5000,
          !.natural = Append(@, Elem("camera metadata indicators detected"))
                        \o (IF meta.hasCameraModel THEN <<Elem("camera model in filename")>> ELSE <<>>)
                        \o (IF meta.hasPhotoTerms THEN <<Elem("photo terminology in filename")>> ELSE <<>>),
          !.features = Append(@, Feature("Metadata Analysis", "", 150, TRUE))]

ArtifactBoost(acc, art) ==
  [acc EXCEPT
     !.ai = @ + (IF art.confidence > 9500 THEN 5000
                 ELSE IF art.confidence > 9000 THEN 4000 ELSE 3000),
     !.artifacts = @ \o art.detectedArtifacts,
     !.features = Append(@, Feature("Enhanced AI Artifact Detection", "", 250, FALSE))]

AnimeBoost(acc, art) ==
  IF art.hasAnimeFeatures
  THEN [acc EXCEPT !.ai = @ + 7500,
                   !.artifacts = Append(@, Elem("anime-style features")),
                   !.features = Append(@, Feature("Anime Style Detection", "", 420, FALSE))]
  ELSE acc

FantasyBoost(acc, art) ==
  IF art.hasFantasyElements
  THEN [acc EXCEPT !.ai = @ + 6500,
                   !.artifacts = Append(@, Elem("fantasy elements")),
                   !.features = Append(@, Feature("Fantasy Element Detection", "", 420, FALSE))]
  ELSE acc

ColorBoost(acc, art) ==
  IF art.hasUnrealisticColors
  THEN [acc EXCEPT !.ai = @ + 6000,
                   !.artifacts = Append(@, Elem("unrealistic color palette")),
                   !.features = Append(@, Feature("Unrealistic Color Detection", "", 380, FALSE))]
  ELSE acc

HybridBoost(acc, art) ==
  IF art.hasAnimalHumanHybrids
  THEN [acc EXCEPT !.ai = @ + 8500,
                   !.artifacts = Append(@, Elem("animal-human hybrid features")),
                   !.features = Append(@, Feature("Animal-Human Hybrid Detection", "", 450, FALSE))]
  ELSE acc

ArtifactStep(acc, art) ==
  IF ~(art.isAIGenerated /\ art.confidence > 8500) THEN acc
  ELSE HybridBoost(ColorBoost(FantasyBoost(AnimeBoost(ArtifactBoost(acc, art), art), art), art), art)

RealBoost(realPhotoIndicators) ==
  IF realPhotoIndicators * 2000 <= 8000 THEN realPhotoIndicators * 2000 ELSE 8000

RealPhotoBoostStep(acc) ==
  IF countRealPhotoIndicators(acc.natural) > 2
  THEN [acc EXCEPT
          !.real = @ + RealBoost(countRealPhotoIndicators(acc.natural)),
          !.features = Append(@, Feature("Real Photo Indicators", "", 400, TRUE))]
  ELSE acc

LocalChecks(acc, loc) ==
  RealPhotoBoostStep(
    ArtifactStep(
      MetadataStep(
        PortraitStep(
          FaceStep(
            NaturalImageStep(acc, loc.nat),
            loc.face),
          loc.portrait),
        loc.meta),
      detectAIGeneratedImage(loc.flags)))

(***************************************************************************)
(* enhancedClassifyImage, lines 436-633: the decision.                     *)
(***************************************************************************)
MinInt(a, b) == IF a <= b THEN a ELSE b

\* The cascade of lines 457-513, repeated verbatim at lines 533-589.
\* Returns the verdict and the confidence before blending and thresholding.
Cascade(realScore, aiScore, loc, art) ==
  LET face == loc.face
      portrait == loc.portrait
      \* scoreRatio = aiScore / (realScore > 0 ? realScore : 1)
      den == IF realScore > 0 THEN realScore ELSE 100
      faceBonus == IF face.isRealHuman THEN 1000 ELSE 0
  IN  IF art.hasAnimalHumanHybrids
        THEN [isReal |-> FALSE, confidence |-> MinInt(art.confidence + 500, 9800)]
      ELSE IF art.hasAnimeFeatures
        THEN [isReal |-> FALSE, confidence |-> MinInt(art.confidence, 9500)]
      ELSE IF art.hasFantasyElements
        THEN [isReal |-> FALSE, confidence |-> MinInt(art.confidence - 500, 9000)]
      ELSE IF portrait.isOutdoorPortrait /\ face.hasFace
        THEN [isReal |-> TRUE, confidence |-> MinInt(8500 + faceBonus, 9500)]
      ELSE IF portrait.isStudioPortrait /\ face.hasFace
        THEN [isReal |-> TRUE, confidence |-> MinInt(8000 + faceBonus, 9500)]
      ELSE IF portrait.isPortraitPhoto /\ loc.meta.isLikelyRealPhoto
        THEN [isReal |-> TRUE, confidence |-> 8500]
      ELSE IF face.isRealHuman /\ loc.nat.isNaturalImage
        THEN [isReal |-> TRUE, confidence |-> MinInt(face.confidence + 1000, 9500)]
      ELSE IF art.isAIGenerated /\ art.confidence > 9500
        THEN [isReal |-> FALSE, confidence |-> art.confidence]
      ELSE IF aiScore * 10 < 9 * den
        THEN [isReal |-> TRUE, confidence |-> MinInt(10000 - (aiScore * 10000) \div den, 9500)]
      ELSE IF aiScore * 10 > 15 * den
        THEN [isReal |-> FALSE, confidence |-> MinInt((aiScore * 6000) \div den, 9500)]
      ELSE IF realScore * 10 >= aiScore * 8
        THEN [isReal |-> TRUE,
              confidence |-> MinInt(7000 + (realScore * 2000) \div aiScore, 8500)]
      ELSE [isReal |-> FALSE,
            confidence |-> IF realScore = 0 THEN 8500
                           ELSE MinInt(7000 + (aiScore * 2000) \div realScore, 8500)]

DecisionCascade(realScore, aiScore, loc) ==
  Cascade(realScore, aiScore, loc, detectAIGeneratedImage(loc.flags))

\* lines 444-529: how a usable backend result enters the verdict
BackendDecision(own, backendResult) ==
  LET backendIsReal == backendResult.is_real
      backendConfidence == backendResult.confidence
      blended == JsAdd(JsScale(Num(own.confidence), 7, 10), JsScale(backendConfidence, 3, 10))
      conflict == Bool(own.isReal) # backendIsReal /\ JsGt(backendConfidence, Num(7500))
      reduced == JsMax(JsAdd(blended, Num(-1500)), Num(6000))
  IN  IF JsGt(backendConfidence, Num(8500))
        THEN [isReal |-> backendIsReal, confidence |-> backendConfidence]
      ELSE IF ~conflict
        THEN [isReal |-> Bool(own.isReal), confidence |-> blended]
      ELSE IF JsGt(backendConfidence, JsAdd(reduced, Num(1000)))
        THEN [isReal |-> backendIsReal, confidence |-> JsScale(backendConfidence, 9, 10)]
      ELSE [isReal |-> Bool(own.isReal), confidence |-> reduced]

\* A threshold step that keeps every verdict, for comparison.
KeepVerdict(d, confidenceThreshold) == d

\* lines 592-600: the user-defined confidence threshold
ApplyThreshold(d, confidenceThreshold) ==
  IF /\ JsLt(d.confidence, Num(confidenceThreshold))
     /\ ~Truthy(d.isReal)
     /\ JsLt(d.confidence, Num(confidenceThreshold - 1000))
  THEN [isReal |-> True, confidence |-> JsMax(d.confidence, Num(6500))]
  ELSE d

\* lines 602-605: the variation and the clamp to [50, 98]
ClampConfidence(confidence, variation) ==
  JsMin(JsMax(JsAdd(confidence, Num(variation)), Num(5000)), Num(9800))

\* lines 436-529 and 530-590: the verdict with and without the backend
Decide(own, backendResult) ==
  IF UsableBackend(backendResult)
  THEN BackendDecision(own, backendResult)
  ELSE [isReal |-> Bool(own.isReal), confidence |-> Num(own.confidence)]

\* lines 607-632: the returned object
EnhancedResult(acc, d, variation) ==
  [isReal            |-> d.isReal,
   confidence        |-> ClampConfidence(d.confidence, variation),
   realScore         |-> acc.real,
   aiScore           |-> acc.ai,
   evaluatedFeatures |-> acc.features,
   naturalElements   |-> acc.natural,
   detectedArtifacts |-> acc.artifacts,
   enhanced          |-> TRUE]

\* lines 436-632, from the accumulated scores on
EnhancedVerdict(acc, loc, backendResult, confidenceThreshold, variation) ==
  EnhancedResult(acc,
                 ApplyThreshold(Decide(DecisionCascade(acc.real, acc.ai, loc), backendResult),
                                confidenceThreshold),
                 variation)

\* lines 90-99: the accumulators start from the standard classification
StartScores(standardResult) ==
  [real      |-> standardResult.realScore,
   ai        |-> standardResult.aiScore,
   features  |-> standardResult.evaluatedFeatures,
   natural   |-> standardResult.naturalElements,
   artifacts |-> standardResult.detectedArtifacts,
   threw     |-> FALSE]

enhancedClassifyImage(standardResult, loc, backendResult, confidenceThreshold, variation) ==
  EnhancedVerdict(LocalChecks(IntegrateBackend(StartScores(standardResult), backendResult), loc),
                  loc, backendResult, confidenceThreshold, variation)

(***************************************************************************)
(* classifyImage as the upload handlers see it.  Its sub-analyses are      *)
(* inputs; the records below are results its return statements produce.    *)
(***************************************************************************)
\* the catch block: the safe default on error
ClassificationErrorResult ==
  [isReal |-> False, confidence |-> Num(7000), realScore |-> 3000, aiScore |-> 7000,
   evaluatedFeatures |-> <<>>, naturalElements |-> <<>>,
   detectedArtifacts |-> <<Elem("classification error")>>, enhanced |-> FALSE]

\* the return of the try block: normalised scores, verdict and confidence
ClassificationResult(isReal, confidence, realScore, aiScore) ==
  [isReal |-> Bool(isReal), confidence |-> Num(confidence),
   realScore |-> realScore, aiScore |-> aiScore,
   evaluatedFeatures |-> <<Feature("AI Artifact Detection", "", 300, realScore > 0 /\ aiScore = 0)>>,
   naturalElements |-> IF realScore > 0 THEN <<Elem("no AI generation artifacts detected")>> ELSE <<>>,
   detectedArtifacts |-> IF aiScore > 0 THEN <<Elem("artificial face")>> ELSE <<>>,
   enhanced |-> FALSE]

(***************************************************************************)
(* classifyImage, step by step.  ci holds what the file name gives and     *)
(* what the sub-analyses (most of them random draws) give in one call.     *)
(* Every step adds 100 * weight to the score of a side and its weight to   *)
(* the weight sum of that side; weights are in hundredths.                 *)
(***************************************************************************)
\* the sub-analyses that run inside a try/catch of their own
SubAnalyses ==
  {"face", "texture", "lighting", "metadata", "theme", "style", "depth", "tensorflow"}

\* what the catch block of a sub-analysis makes the step see: no face,
\* natural textures, consistent lighting, inconsistent metadata, no theme,
\* no style, natural depth, the model saying generated
SubFallback(a) ==
  CASE a = "face"       -> "none"
    [] a = "texture"    -> "real"
    [] a = "lighting"   -> "real"
    [] a = "metadata"   -> "ai"
    [] a = "theme"      -> "none"
    [] a = "style"      -> "none"
    [] a = "depth"      -> "real"
    [] a = "tensorflow" -> "ai"

\* A sub-analysis whose failure reaches the step as it is, for comparison.
SubRaw(ci, a) == ci.sub[a]

SubOutcome(ci, a) == IF ci.sub[a] = "failed" THEN SubFallback(a) ELSE ci.sub[a]

\* CLASSIFIER_WEIGHTS.externalAPIs[provider]; no entry for stableDiffusion
ExternalWeight(provider) ==
  CASE provider = "deepAI"   -> 200
    [] provider = "clarifai" -> 180
    [] OTHER                 -> -1

ClassifierStep(side, weight, name, realTexts, aiTexts) ==
  [side |-> side, weight |-> weight, name |-> name,
   texts |-> IF side = "real" THEN realTexts ELSE aiTexts]

\* determineIfNaturalPhotograph with the constants classifyImage passes
NaturalPhotographSide(ci) ==
  IF ci.fileName.indicator /\ ~ci.fileName.aiStyle /\ ~ci.cyberpunk THEN "real"
  ELSE IF ci.cyberpunk \/ ci.fileName.aiStyle THEN "ai"
  ELSE "none"

\* steps 0 to 8 of the try block
FirstSteps(ci) ==
  <<ClassifierStep(IF ci.fileName.brand THEN "real" ELSE "none", 200, "Brand Detection",
                   <<"real-world brand detected in filename">>, <<>>),
    ClassifierStep(IF ci.fileName.likelyReal THEN "real"
                   ELSE IF ci.fileName.aiTerms THEN "ai" ELSE "none",
                   150, "Filename Analysis", <<>>, <<"AI terms in filename">>),
    ClassifierStep(IF ci.studio THEN "real" ELSE "none", 200, "Studio Portrait Detection",
                   <<"studio portrait detected">>, <<>>),
    ClassifierStep(IF ci.outdoor THEN "real" ELSE "none", 200, "Outdoor Portrait Detection",
                   <<"outdoor portrait detected">>, <<>>),
    ClassifierStep(IF ci.cyberpunk THEN "ai" ELSE "none", 300, "Cyberpunk Aesthetic Detection",
                   <<>>, <<"cyberpunk/sci-fi aesthetic">>),
    ClassifierStep(IF ci.naturalSubject THEN "real" ELSE "none", 200, "Natural Subject Detection",
                   <<"natural subject detected", "natural noise patterns",
                     "natural lighting conditions", "natural color patterns">>, <<>>),
    ClassifierStep(NaturalPhotographSide(ci), 250, "Natural Photograph Analysis",
                   <<"natural photograph characteristics">>,
                   <<"AI-generated image characteristics">>),
    ClassifierStep(IF detectAIGeneratedImage(ci.flags).isAIGenerated THEN "ai" ELSE "real",
                   300, "AI Artifact Detection",
                   <<"no AI generation artifacts detected">>, <<>>),
    ClassifierStep(SubOutcome(ci, "face"), 220, "Face Analysis",
                   <<"natural human face">>, <<"artificial face">>)>>

\* the steps numbered 3 to 9 after them
SubAnalysisSteps(ci) ==
  <<ClassifierStep(SubOutcome(ci, "texture"), 250, "Texture Analysis",
                   <<"natural texture patterns">>, <<"artificial texture patterns">>),
    ClassifierStep(SubOutcome(ci, "lighting"), 200, "Lighting Analysis",
                   <<"natural lighting conditions">>, <<"inconsistent lighting">>),
    ClassifierStep(SubOutcome(ci, "metadata"), 80, "Metadata Analysis",
                   <<>>, <<"inconsistent or missing metadata">>),
    ClassifierStep(SubOutcome(ci, "theme"), 220, "Theme Detection",
                   <<>>, <<"fantasy/sci-fi elements">>),
    ClassifierStep(SubOutcome(ci, "style"), 240, "Style Detection",
                   <<>>, <<"digital art style">>),
    ClassifierStep(SubOutcome(ci, "depth"), 180, "Depth Analysis",
                   <<"natural depth of field">>, <<"unnatural depth of field">>),
    ClassifierStep(SubOutcome(ci, "tensorflow"), 250, "TensorFlow Model", <<>>, <<>>)>>

\* step 10: one entry per answer of callExternalAPIs
ExternalSteps(ci) ==
  [i \in 1..Len(ci.external) |->
     ClassifierStep(IF ci.external[i].isReal THEN "real" ELSE "ai",
                    ExternalWeight(ci.external[i].provider), "API", <<>>, <<>>)]

\* steps 11 to 13: the bonuses, which need the analysis itself (not its
\* fallback, whose confidence is 0) to be confident
BonusSteps(ci) ==
  <<ClassifierStep(IF /\ "anime" \in ci.confident
                      /\ (ci.sub["style"] = "ai" \/ ci.sub["theme"] = "ai") THEN "ai" ELSE "none",
                   300, "Anime/Fantasy Detection", <<>>, <<>>),
    ClassifierStep(IF "cyberpunk" \in ci.confident /\ ci.sub["theme"] = "ai" THEN "ai" ELSE "none",
                   300, "Cyberpunk Detection", <<>>, <<>>),
    ClassifierStep(IF "human" \in ci.confident /\ ci.sub["face"] = "real" THEN "real" ELSE "none",
                   200, "Natural Human Features", <<>>, <<>>)>>

ClassifierSteps(ci) ==
  FirstSteps(ci) \o SubAnalysisSteps(ci) \o ExternalSteps(ci) \o BonusSteps(ci)

RECURSIVE SumWeights(_, _)
SumWeights(steps, side) ==
  IF steps = <<>> THEN 0
  ELSE (IF Head(steps).side = side THEN Head(steps).weight ELSE 0) + SumWeights(Tail(steps), side)

\* score / weightSum when weightSum > 0, else 0.  A weight that is
\* undefined makes both sums NaN, and NaN > 0 is false.
NormalizedScore(steps, side) ==
  IF \E i \in 1..Len(steps) : steps[i].side = side /\ steps[i].weight < 0 THEN 0
  ELSE IF SumWeights(steps, side) > 0
  THEN (100 * SumWeights(steps, side) * 100) \div SumWeights(steps, side)
  ELSE 0

RECURSIVE StepTexts(_, _)
StepTexts(steps, side) ==
  IF steps = <<>> THEN <<>>
  ELSE (IF Head(steps).side = side
        THEN [i \in 1..Len(Head(steps).texts) |-> Elem(Head(steps).texts[i])]
        ELSE <<>>) \o StepTexts(Tail(steps), side)

StepFeatures(steps) ==
  [i \in 1..Len(SelectSeq(steps, LAMBDA st : st.side # "none")) |->
     Feature(SelectSeq(steps, LAMBDA st : st.side # "none")[i].name, "",
             SelectSeq(steps, LAMBDA st : st.side # "none")[i].weight,
             SelectSeq(steps, LAMBDA st : st.side # "none")[i].side = "real")]

\* A final classification that tests the cyberpunk aesthetic first, for
\* comparison.
CyberpunkFirst(ci, normalizedRealScore, normalizedAiScore) ==
  IF ci.cyberpunk THEN [isReal |-> FALSE, confidence |-> 9500]
  ELSE [isReal |-> TRUE, confidence |-> 9000]

\* lines 1076-1121: the final classification
ClassifierDecision(ci, normalizedRealScore, normalizedAiScore) ==
  IF ci.fileName.brand \/ ci.studio \/ ci.outdoor
    THEN [isReal |-> TRUE, confidence |-> 9000]
  ELSE IF ci.cyberpunk
    THEN [isReal |-> FALSE, confidence |-> 9500]
  ELSE IF NaturalPhotographSide(ci) = "real" /\ ci.naturalSubject
    THEN [isReal |-> TRUE, confidence |-> 8500]
  ELSE IF normalizedRealScore * 10 > 15 * (IF normalizedAiScore > 0 THEN normalizedAiScore ELSE 100)
    THEN [isReal |-> TRUE, confidence |-> MinInt(normalizedRealScore, 9000)]
  ELSE IF normalizedRealScore * 10 < 7 * (IF normalizedAiScore > 0 THEN normalizedAiScore ELSE 100)
    THEN [isReal |-> FALSE, confidence |-> MinInt(normalizedAiScore, 9000)]
  ELSE IF /\ detectAIGeneratedImage(ci.flags).isAIGenerated
          /\ detectAIGeneratedImage(ci.flags).confidence > 7000
    THEN [isReal |-> FALSE, confidence |-> 8000]
  ELSE IF SubOutcome(ci, "face") = "real" /\ "face" \in ci.confident
    THEN [isReal |-> TRUE, confidence |-> 8000]
  ELSE [isReal |-> normalizedRealScore > normalizedAiScore,
        confidence |-> IF normalizedRealScore > normalizedAiScore
                       THEN normalizedRealScore ELSE normalizedAiScore]

\* the object returned by the try block
ClassifierReturn(steps, d, normalizedRealScore, normalizedAiScore) ==
  [isReal |-> Bool(d.isReal), confidence |-> Num(d.confidence),
   realScore |-> normalizedRealScore, aiScore |-> normalizedAiScore,
   evaluatedFeatures |-> StepFeatures(steps),
   naturalElements |-> StepTexts(steps, "real"),
   detectedArtifacts |-> StepTexts(steps, "ai"),
   enhanced |-> FALSE]

ClassifierVerdict(ci, steps) ==
  ClassifierReturn(steps,
                   ClassifierDecision(ci, NormalizedScore(steps, "real"), NormalizedScore(steps, "ai")),
                   NormalizedScore(steps, "real"), NormalizedScore(steps, "ai"))

\* classifyImage: the value its promise resolves with.  ci.throws says that
\* something outside the sub-analyses' own try/catch threw (the buffer is
\* undefined, a detector of step 2 to 7 throws).
classifyImage(ci) ==
  IF ci.throws THEN ClassificationErrorResult
  ELSE ClassifierVerdict(ci, ClassifierSteps(ci))

\* what the file-name checks find: a brand, a likely real photo, AI terms,
\* a camera/studio/outdoor indicator, an AI style indicator
FileName(brand, likelyReal, aiTerms, indicator, aiStyle) ==
  [brand |-> brand, likelyReal |-> likelyReal, aiTerms |-> aiTerms,
   indicator |-> indicator, aiStyle |-> aiStyle]

FileNames ==
  {FileName(FALSE, FALSE, FALSE, FALSE, FALSE),   \* "upload.bin"
   FileName(TRUE, TRUE, FALSE, TRUE, FALSE),      \* "canon_eos_0001.jpg"
   FileName(FALSE, TRUE, FALSE, TRUE, FALSE),     \* "dsc_0001.jpg"
   FileName(FALSE, FALSE, TRUE, FALSE, TRUE)}     \* "midjourney.png"

SubAllReal == [a \in SubAnalyses |-> IF a \in {"theme", "style"} THEN "none" ELSE "real"]
SubAllAi == [a \in SubAnalyses |-> "ai"]

\* every sub-analysis succeeds, or one of them throws inside its try block
SubResults ==
  {SubAllReal, SubAllAi} \cup {[SubAllAi EXCEPT ![a] = "failed"] : a \in SubAnalyses}

ClassifierInput(fileName, draws, flags, sub, external, confident, throws) ==
  [fileName |-> fileName, studio |-> draws[1], outdoor |-> draws[2],
   cyberpunk |-> draws[3], naturalSubject |-> draws[4], flags |-> flags,
   sub |-> sub, external |-> external, confident |-> confident, throws |-> throws]

ClassifierInputs ==
  {ClassifierInput(f, d, fl, s, e, c, t) :
     f \in FileNames, d \in [1..4 -> BOOLEAN],
     fl \in {{}, {"anime-style features"}},
     s \in SubResults,
     e \in {<<>>, <<[provider |-> "stableDiffusion", isReal |-> TRUE]>>},
     c \in {{}, {"anime", "cyberpunk", "human", "face"}},
     t \in BOOLEAN}

NoClassifierInput ==
  ClassifierInput(FileName(FALSE, FALSE, FALSE, FALSE, FALSE), [i \in 1..4 |-> FALSE],
                  {}, SubAllReal, <<>>, {}, FALSE)

(***************************************************************************)
(* The upload handler of the detect route (POST, field "file"):            *)
(* lines 122-290, from the cache miss to the final result.                 *)
(***************************************************************************)
AbsInt(n) == IF n < 0 THEN -n ELSE n

\* a && b of the language
JsAnd(a, b) == IF Truthy(a) THEN b ELSE a

RECURSIVE Dedupe(_)
Dedupe(seq) ==
  IF seq = <<>> THEN <<>>
  ELSE LET init == Dedupe(SubSeq(seq, 1, Len(seq) - 1))
           last == seq[Len(seq)]
       IN  IF \E i \in 1..Len(init) : init[i] = last THEN init ELSE Append(init, last)

RECURSIVE AddMissingFeatures(_, _)
AddMissingFeatures(combined, more) ==
  IF more = <<>> THEN combined
  ELSE LET f == Head(more)
           known == \E i \in 1..Len(combined) :
                      combined[i].name = f.name /\ combined[i].model = f.model
       IN  AddMissingFeatures(IF known THEN combined ELSE Append(combined, f), Tail(more))

\* A combination that takes the deep analysis as it is, for comparison.
combineTakesDeep(initialAnalysis, deepAnalysis) == deepAnalysis

combineAnalysisResults(initialAnalysis, deepAnalysis) ==
  LET isReal == JsAnd(initialAnalysis.isReal, deepAnalysis.isReal)
      confidence ==
        IF Truthy(isReal)
        THEN JsAdd(JsScale(initialAnalysis.confidence, 3, 10), JsScale(deepAnalysis.confidence, 7, 10))
        ELSE JsMax(initialAnalysis.confidence, deepAnalysis.confidence)
  IN  [deepAnalysis EXCEPT
         !.isReal = isReal,
         !.confidence = confidence,
         !.evaluatedFeatures = AddMissingFeatures(initialAnalysis.evaluatedFeatures,
                                                  deepAnalysis.evaluatedFeatures),
         !.detectedArtifacts = Dedupe(initialAnalysis.detectedArtifacts \o deepAnalysis.detectedArtifacts),
         !.naturalElements = Dedupe(initialAnalysis.naturalElements \o deepAnalysis.naturalElements)]

\* One run of a classifier on the upload.  run holds what the sub-analyses,
\* the external detector and the clock gave in that run.
RunClassifier(useEnhancedDetection, run, confidenceThreshold) ==
  IF useEnhancedDetection
  THEN enhancedClassifyImage(run.standardResult, run.loc, run.backendResult,
                             confidenceThreshold, run.variation)
  ELSE run.standardResult

isBorderlineCase(initialAnalysis) ==
  AbsInt(initialAnalysis.realScore - initialAnalysis.aiScore) < 2000

\* Math.min(Math.max(confidence + confidenceVariation, 0), 100)
displayConfidence(confidence, confidenceVariation) ==
  JsMin(JsMax(JsAdd(confidence, Num(confidenceVariation)), Num(0)), Num(10000))

\* lines 253-290: the final result (the fields the claims speak of)
FinalResult(analysisResult, deepAnalysisPerformed, confidenceVariation) ==
  [isReal                |-> analysisResult.isReal,
   confidence            |-> displayConfidence(analysisResult.confidence, confidenceVariation),
   realPhotoScore        |-> analysisResult.realScore,
   aiGenerationScore     |-> analysisResult.aiScore,
   deepAnalysisPerformed |-> deepAnalysisPerformed,
   shape                 |-> "finalResult"]

\* lines 150-168: deepAnalysis stays null unless the initial analysis is
\* borderline; the deep run gets the threshold raised by 10
DeepAnalysis(initialAnalysis, confidenceThreshold, sc) ==
  IF isBorderlineCase(initialAnalysis)
  THEN enhancedClassifyImage(sc.deep.standardResult, sc.deep.loc, sc.deep.backendResult,
                             confidenceThreshold + 1000, sc.deep.variation)
  ELSE Null

\* line 171: deepAnalysis ? combineAnalysisResults(...) : initialAnalysis
AnalysisResult(initialAnalysis, deepAnalysis) ==
  IF deepAnalysis # Null
  THEN combineAnalysisResults(initialAnalysis, deepAnalysis)
  ELSE initialAnalysis

\* lines 150-290: from the initial analysis to the final result
AfterInitial(initialAnalysis, confidenceThreshold, sc) ==
  FinalResult(AnalysisResult(initialAnalysis,
                             DeepAnalysis(initialAnalysis, confidenceThreshold, sc)),
              DeepAnalysis(initialAnalysis, confidenceThreshold, sc) # Null,
              sc.confidenceVariation)

\* lines 144-290: from the cache miss to the final result
AnalyzeUpload(useEnhancedDetection, confidenceThreshold, sc) ==
  AfterInitial(RunClassifier(useEnhancedDetection, sc.first, confidenceThreshold),
               confidenceThreshold, sc)

(***************************************************************************)
(* State.                                                                  *)
(***************************************************************************)
VARIABLES
  cache,      \* analysisCache: sequence of [key, value] in insertion order
  lastCall,   \* the cache call made by the last step, if it made one
  pc,         \* per handler: the await it is suspended at
  req,        \* per handler: the request being served
  local,      \* per handler: local variables that live across an await
  resp,       \* per handler: the response returned
  effects,    \* per handler: whether a classifier ran, the detector was called
  lastVerdict,\* the verdict last answered by the detect route, and the hash and
              \* form fields of the request it answered
  gPc,        \* status handler: the await it is suspended at
  gVariant,   \* status handler: which of the three GET handlers runs
  gLog,       \* status handler: the fetches issued so far, in order
  gDetails,   \* status handler: errorDetails
  gConnected, \* status handler: connected
  gResp,      \* status handler: the response returned
  ePc,        \* enhancedClassifyImage: the await it is suspended at
  eIn,        \* enhancedClassifyImage: what the local analyses give in this call
  eErrors,    \* sendToBackend: errors
  eBackend,   \* enhancedClassifyImage: backendResult
  eOut,       \* enhancedClassifyImage: the returned object
  eTimer,     \* sendToBackend: whether the abort timer of the attempt is armed
  ePosts,     \* sendToBackend: the URLs POSTed to so far, in order
  cIn,        \* classifyImage: what the sub-analyses give in this call
  cOut,       \* classifyImage: the value its promise settled with
  hIn,        \* generateImageHash: the two buffers hashed
  hOut,       \* generateImageHash: the two keys returned
  file,       \* Home page: whether a file is selected
  isLoading,  \* Home page: the isLoading state
  progress,   \* Home page: the progress state
  error,      \* Home page: the error state ("null" or the message)
  detectionResult, \* Home page: the result state ("null" or "data")
  homePc,     \* Home page: where the last handleSubmit call stands
  intervals,  \* Home page: the interval timers that are running
  progressInterval \* Home page: the timer created by the last handleSubmit

uploadVars == <<cache, lastCall, pc, req, local, resp, effects, lastVerdict>>
statusVars == <<gPc, gVariant, gLog, gDetails, gConnected, gResp>>
enhancedVars == <<ePc, eIn, eErrors, eBackend, eOut, eTimer, ePosts>>
classifierVars == <<cIn, cOut>>
hashVars == <<hIn, hOut>>
homeVars == <<file, isLoading, progress, error, detectionResult, homePc, intervals,
              progressInterval>>

NumHandlers == 2
Handlers == 1..NumHandlers

\* generateImageHash applied to an ArrayBuffer (the legacy route passes the
\* ArrayBuffer itself): toString ignores its argument and yields
\* "[object ArrayBuffer]", so every upload gets the one key.
LegacyHash == 1

\* hashes of the uploads sent to the detect route
UploadHashes == {2, MAX_CACHE_SIZE + 1}

NoRequest == [route |-> "none", form |-> "none", fileName |-> "", hash |-> 0,
              force |-> FALSE, enhanced |-> FALSE, threshold |-> 0]

\* formData.get("force_reanalyze") === "true", get("use_enhanced") !== "false",
\* Number.parseInt(get("confidence_threshold")) || 65
DetectRequest(form, fileName, hash, force, enhanced, threshold) ==
  [route |-> "detect", form |-> form, fileName |-> fileName, hash |-> hash,
   force |-> force, enhanced |-> enhanced, threshold |-> threshold]

LegacyRequest(form) ==
  [route |-> "legacy", form |-> form, fileName |-> "", hash |-> LegacyHash,
   force |-> FALSE, enhanced |-> FALSE, threshold |-> 0]

\* error is what the catch block caught
NoLocal == [hit |-> FALSE, value |-> Undefined, error |-> "none",
            initialAnalysis |-> Undefined, deepAnalysis |-> Undefined,
            analysisResult |-> Undefined]
NoEffects == [classifier |-> FALSE, backend |-> FALSE]
NoCall == [op |-> "none", key |-> 0, value |-> Undefined]
NoVerdict == [hash |-> 0, isReal |-> Undefined, confidence |-> Undefined, force |-> FALSE,
              fileName |-> "", enhanced |-> FALSE, threshold |-> 0]

(***************************************************************************)
(* Responses.  JSON.stringify turns NaN into null and drops undefined.     *)
(***************************************************************************)
ToJson(x) == IF x.t = "nan" THEN Null ELSE x

NoResponse == [status |-> 0, error |-> FALSE, isReal |-> Undefined,
               confidence |-> Undefined, cached |-> Undefined]

\* NextResponse.json(body) without the init argument answers 200
ErrorResponseDefaultStatus(status) ==
  [status |-> 200, error |-> TRUE, isReal |-> Undefined,
   confidence |-> Undefined, cached |-> Undefined]

ErrorResponse(status) ==
  [status |-> status, error |-> TRUE, isReal |-> Undefined,
   confidence |-> Undefined, cached |-> Undefined]

\* NextResponse.json(result) and NextResponse.json({...result, cached})
VerdictResponse(result, cached) ==
  IF result = Undefined
  THEN [status |-> 200, error |-> FALSE, isReal |-> Undefined,
        confidence |-> Undefined, cached |-> cached]
  ELSE [status |-> 200, error |-> FALSE, isReal |-> ToJson(result.isReal),
        confidence |-> ToJson(result.confidence), cached |-> cached]

\* the payload of the legacy route's catch block: { error } alone
BareErrorResponse ==
  [status |-> 500, error |-> TRUE, isReal |-> Undefined,
   confidence |-> Undefined, cached |-> Undefined]

\* the fixed payload of the detect route's catch block
FallbackResponse ==
  [status |-> 500, error |-> TRUE, isReal |-> False,
   confidence |-> Num(7000), cached |-> Undefined]

(***************************************************************************)
(* Inputs: what the heuristics, the detector and the clock give in a run.  *)
(***************************************************************************)
NoFace == [hasFace |-> FALSE, isRealHuman |-> FALSE, confidence |-> 0,
           naturalFeatures |-> <<>>, artificialFeatures |-> <<>>]
NoPortrait == [isPortraitPhoto |-> FALSE, isOutdoorPortrait |-> FALSE, isStudioPortrait |-> FALSE]
NoMetadata == [isLikelyRealPhoto |-> FALSE, hasCameraModel |-> FALSE, hasPhotoTerms |-> FALSE]
NotNatural == [isNaturalImage |-> FALSE, details |-> <<>>]

LocPlain == [nat |-> NotNatural, face |-> NoFace, portrait |-> NoPortrait,
             meta |-> NoMetadata, flags |-> {}]

Run(standardResult, loc, backendResult, variation) ==
  [standardResult |-> standardResult, loc |-> loc,
   backendResult |-> backendResult, variation |-> variation]

Scenario(throws, first, deep, confidenceVariation) ==
  [throws |-> throws, first |-> first, deep |-> deep,
   confidenceVariation |-> confidenceVariation]

\* a plain photo, the detector unreachable
RunPhoto == Run(ClassificationResult(TRUE, 9000, 10000, 0), LocPlain, BackendError, 0)

\* the same photo, the detector answers {"is_real": true} without confidence
RunNoConfidence ==
  Run(ClassificationResult(TRUE, 9000, 10000, 0), LocPlain,
      BackendJson(True, Undefined, <<>>, NoFrequencyFeatures, <<>>, FALSE), 0)

\* AI terms in the file name against clean pixels: both sides score 100
RunAmbiguous(variation) ==
  Run(ClassificationResult(FALSE, 10000, 10000, 10000), LocPlain, BackendError, variation)

ScPhoto == Scenario("none", RunPhoto, RunPhoto, 149)
ScNoConfidence == Scenario("none", RunNoConfidence, RunNoConfidence, 0)
ScBorderline == Scenario("none", RunAmbiguous(150), RunAmbiguous(-150), -150)
\* sharp cannot read the upload (a video, a truncated file)
ScSharpFails == Scenario("sharp", RunPhoto, RunPhoto, 0)
\* a heuristic of the enhanced classifier throws
ScClassifierThrows == Scenario("classifier", RunPhoto, RunPhoto, 0)

\* One image ("upload.bin", clean pixels) analysed twice.  classifyImage
\* draws its portrait and night-cityscape findings anew in every call: in
\* one call the studio background and lighting come up, in the other the
\* night cityscape.
DrawStudio ==
  ClassifierInput(FileName(FALSE, FALSE, FALSE, FALSE, FALSE),
                  <<TRUE, FALSE, FALSE, FALSE>>, {}, SubAllReal, <<>>, {}, FALSE)

DrawNightCity ==
  ClassifierInput(FileName(FALSE, FALSE, FALSE, FALSE, FALSE),
                  <<FALSE, FALSE, TRUE, FALSE>>, {}, SubAllReal, <<>>, {}, FALSE)

RunDraw(ci) == Run(classifyImage(ci), LocPlain, BackendError, 0)

ScStudio == Scenario("none", RunDraw(DrawStudio), RunDraw(DrawStudio), 0)
ScNightCity == Scenario("none", RunDraw(DrawNightCity), RunDraw(DrawNightCity), 0)

\* a borderline image whose second pass reaches the detector, which says
\* generated with confidence 90
ScDeepDetector ==
  Scenario("none", RunAmbiguous(150),
           Run(ClassificationResult(FALSE, 10000, 10000, 10000), LocPlain,
               BackendJson(False, Num(9000), <<>>, NoFrequencyFeatures, <<>>, FALSE), 0),
           0)

UploadScenarios ==
  {ScPhoto, ScNoConfidence, ScBorderline, ScSharpFails, ScClassifierThrows,
   ScStudio, ScNightCity, ScDeepDetector}

Forms == {"unparsable", "nofile", "text", "file"}

UploadRequests ==
  {DetectRequest(f, "upload.bin", h, force, enh, 6500) :
     f \in {"file"}, h \in UploadHashes, force \in BOOLEAN, enh \in BOOLEAN}
  \cup {DetectRequest(f, "", 0, FALSE, TRUE, 6500) : f \in Forms \ {"file"}}
  \* the same bytes sent again under another name, in standard mode and
  \* with another threshold
  \cup {DetectRequest("file", "canon_eos_0001.jpg", 2, FALSE, FALSE, 9500)}
  \cup {LegacyRequest(f) : f \in Forms}

\* the result of an earlier upload, as stored by the detect route
WarmResult == AnalyzeUpload(TRUE, 6500, ScPhoto)

\* the cache after n uploads of n different images
WarmCache(n) ==
  [i \in 1..n |-> [key |-> i,
                   value |-> IF i = LegacyHash THEN ClassificationErrorResult ELSE WarmResult]]

(***************************************************************************)
(* Upload handlers.  An action is the code a handler runs between two      *)
(* awaits; consecutive awaits that touch only locals are taken together.   *)
(***************************************************************************)
InitUpload ==
  /\ cache \in {<<>>, WarmCache(MAX_CACHE_SIZE)}
  /\ lastCall = NoCall
  /\ pc = [h \in Handlers |-> "idle"]
  /\ req = [h \in Handlers |-> NoRequest]
  /\ local = [h \in Handlers |-> NoLocal]
  /\ resp = [h \in Handlers |-> NoResponse]
  /\ effects = [h \in Handlers |-> NoEffects]
  /\ lastVerdict = NoVerdict

\* A request arrives and the handler runs up to its first await on the file.
\* detect route: lines 88-105; legacy route: lines 80-93.
Receive(h, requests) ==
  /\ pc[h] = "idle"
  /\ \E r \in requests :
       /\ req' = [req EXCEPT ![h] = r]
       /\ CASE r.form = "file" ->
                 /\ pc' = [pc EXCEPT ![h] = "arrayBuffer"]
                 /\ UNCHANGED <<resp, local>>
            [] r.form = "nofile" ->
                 /\ pc' = [pc EXCEPT ![h] = "done"]
                 /\ resp' = [resp EXCEPT ![h] = ErrorResponse(400)]
                 /\ local' = local
            [] r.form = "text" /\ r.route = "legacy" ->
                 \* !(imageFile instanceof Blob)
                 /\ pc' = [pc EXCEPT ![h] = "done"]
                 /\ resp' = [resp EXCEPT ![h] = ErrorResponse(400)]
                 /\ local' = local
            [] r.form = "unparsable" /\ r.route = "legacy" ->
                 \* catch: { error } with status 500
                 /\ pc' = [pc EXCEPT ![h] = "done"]
                 /\ resp' = [resp EXCEPT ![h] = ErrorResponse(500)]
                 /\ local' = [local EXCEPT ![h].error = "form"]
            [] OTHER ->
                 \* detect route: formData() rejects, or file.arrayBuffer is
                 \* not a function; the catch block starts its 3 s delay
                 /\ pc' = [pc EXCEPT ![h] = "errorDelay"]
                 /\ resp' = resp
                 /\ local' = [local EXCEPT ![h].error = "form"]
  /\ lastCall' = NoCall
  /\ UNCHANGED <<cache, effects, lastVerdict, statusVars, enhancedVars, classifierVars, hashVars, homeVars>>

\* A presence check that serves cached results to enhanced-mode requests
\* only, for comparison.
CheckCacheEnhancedOnly(h) ==
  /\ pc[h] = "arrayBuffer"
  /\ req[h].route = "detect"
  /\ IF ~req[h].force /\ req[h].enhanced /\ hasAnalysisInCache(cache, req[h].hash)
     THEN /\ local' = [local EXCEPT ![h].hit = TRUE,
                                  ![h].value = getAnalysisFromCache(cache, req[h].hash)]
          /\ pc' = [pc EXCEPT ![h] = "hitDelay"]
     ELSE /\ local' = local
          /\ pc' = [pc EXCEPT ![h] = "analysis"]
  /\ lastCall' = NoCall
  /\ UNCHANGED <<cache, req, resp, effects, lastVerdict, statusVars, enhancedVars, classifierVars, hashVars, homeVars>>

\* detect route, lines 106-120: hash, presence check and read in one go
CheckCache(h) ==
  /\ pc[h] = "arrayBuffer"
  /\ req[h].route = "detect"
  /\ IF ~req[h].force /\ hasAnalysisInCache(cache, req[h].hash)
     THEN /\ local' = [local EXCEPT ![h].hit = TRUE,
                                  ![h].value = getAnalysisFromCache(cache, req[h].hash)]
          /\ pc' = [pc EXCEPT ![h] = "hitDelay"]
     ELSE /\ local' = local
          /\ pc' = [pc EXCEPT ![h] = "analysis"]
  /\ lastCall' = NoCall
  /\ UNCHANGED <<cache, req, resp, effects, lastVerdict, statusVars, enhancedVars, classifierVars, hashVars, homeVars>>

\* detect route, lines 117-119: after the 2 s delay
RespondCached(h) ==
  /\ pc[h] = "hitDelay"
  /\ resp' = [resp EXCEPT ![h] = VerdictResponse(local[h].value, Undefined)]
  /\ pc' = [pc EXCEPT ![h] = "done"]
  /\ lastCall' = NoCall
  /\ UNCHANGED <<cache, req, local, effects, lastVerdict, statusVars, enhancedVars, classifierVars, hashVars, homeVars>>

\* detect route, lines 122-296: the analysis; the store and the response
\* follow the last await without a break
Analyze(h, scenarios) ==
  /\ pc[h] = "analysis"
  /\ \E sc \in scenarios :
       CASE sc.throws = "sharp" ->
              /\ pc' = [pc EXCEPT ![h] = "errorDelay"]
              /\ local' = [local EXCEPT ![h].error = "sharp"]
              /\ UNCHANGED <<cache, resp, effects>>
              /\ lastCall' = NoCall
         [] sc.throws = "classifier" ->
              /\ pc' = [pc EXCEPT ![h] = "errorDelay"]
              /\ local' = [local EXCEPT ![h].error = "classifier"]
              /\ effects' = [effects EXCEPT ![h] = [classifier |-> TRUE,
                                                    backend |-> req[h].enhanced]]
              /\ UNCHANGED <<cache, resp>>
              /\ lastCall' = NoCall
         [] OTHER ->
              /\ lastCall' = [op |-> "store", key |-> req[h].hash,
                              value |-> AnalyzeUpload(req[h].enhanced, req[h].threshold, sc)]
              /\ cache' = storeAnalysisInCache(cache, req[h].hash, lastCall'.value)
              /\ resp' = [resp EXCEPT ![h] = VerdictResponse(lastCall'.value, Undefined)]
              /\ effects' = [effects EXCEPT ![h] =
                               [classifier |-> TRUE,
                                backend |-> req[h].enhanced \/ lastCall'.value.deepAnalysisPerformed]]
              /\ pc' = [pc EXCEPT ![h] = "done"]
              /\ local' = [local EXCEPT
                             ![h].initialAnalysis =
                               RunClassifier(req[h].enhanced, sc.first, req[h].threshold),
                             ![h].deepAnalysis =
                               DeepAnalysis(RunClassifier(req[h].enhanced, sc.first, req[h].threshold),
                                            req[h].threshold, sc),
                             ![h].analysisResult =
                               AnalysisResult(
                                 RunClassifier(req[h].enhanced, sc.first, req[h].threshold),
                                 DeepAnalysis(RunClassifier(req[h].enhanced, sc.first, req[h].threshold),
                                              req[h].threshold, sc))]
  /\ UNCHANGED <<req, lastVerdict, statusVars, enhancedVars, classifierVars, hashVars, homeVars>>

\* A catch block that also stores its payload under the upload's hash, for
\* comparison.
RespondErrorStoring(h) ==
  /\ pc[h] = "errorDelay"
  /\ resp' = [resp EXCEPT ![h] = FallbackResponse]
  /\ pc' = [pc EXCEPT ![h] = "done"]
  /\ cache' = storeAnalysisInCache(cache, req[h].hash, ClassificationErrorResult)
  /\ lastCall' = NoCall
  /\ UNCHANGED <<req, local, effects, lastVerdict, statusVars, enhancedVars, classifierVars, hashVars, homeVars>>

\* detect route, lines 297-333: after the 3 s delay of the catch block
RespondError(h) ==
  /\ pc[h] = "errorDelay"
  /\ resp' = [resp EXCEPT ![h] = FallbackResponse]
  /\ pc' = [pc EXCEPT ![h] = "done"]
  /\ lastCall' = NoCall
  /\ UNCHANGED <<cache, req, local, effects, lastVerdict, statusVars, enhancedVars, classifierVars, hashVars, homeVars>>

\* legacy route, lines 92-95: arrayBuffer and hash resolved; the presence
\* check is evaluated and awaited
LegacyHas(h) ==
  /\ pc[h] = "arrayBuffer"
  /\ req[h].route = "legacy"
  /\ local' = [local EXCEPT ![h].hit = hasAnalysisInCache(cache, req[h].hash)]
  /\ pc' = [pc EXCEPT ![h] = "hasAwait"]
  /\ lastCall' = NoCall
  /\ UNCHANGED <<cache, req, resp, effects, lastVerdict, statusVars, enhancedVars, classifierVars, hashVars, homeVars>>

\* legacy route, lines 95-100: the read, or the call of classifyImage
LegacyAfterHas(h) ==
  /\ pc[h] = "hasAwait"
  /\ IF local[h].hit
     THEN /\ local' = [local EXCEPT ![h].value = getAnalysisFromCache(cache, req[h].hash)]
          /\ pc' = [pc EXCEPT ![h] = "getAwait"]
          /\ effects' = effects
     ELSE /\ local' = local
          /\ pc' = [pc EXCEPT ![h] = "classifyAwait"]
          /\ effects' = [effects EXCEPT ![h].classifier = TRUE]
  /\ lastCall' = NoCall
  /\ UNCHANGED <<cache, req, resp, lastVerdict, statusVars, enhancedVars, classifierVars, hashVars, homeVars>>

\* legacy route, lines 96-97
LegacyRespondCached(h) ==
  /\ pc[h] = "getAwait"
  /\ resp' = [resp EXCEPT ![h] = VerdictResponse(local[h].value, True)]
  /\ pc' = [pc EXCEPT ![h] = "done"]
  /\ lastCall' = NoCall
  /\ UNCHANGED <<cache, req, local, effects, lastVerdict, statusVars, enhancedVars, classifierVars, hashVars, homeVars>>

\* legacy route, lines 100-106.  classifyImage is called with the buffer
\* alone: fileName and buffer are undefined, its try block throws at once
\* and the catch block returns the error default, which is truthy.
LegacyStore(h) ==
  /\ pc[h] = "classifyAwait"
  /\ local' = [local EXCEPT ![h].value = ClassificationErrorResult]
  /\ cache' = storeAnalysisInCache(cache, req[h].hash, ClassificationErrorResult)
  /\ lastCall' = [op |-> "store", key |-> req[h].hash, value |-> ClassificationErrorResult]
  /\ pc' = [pc EXCEPT ![h] = "storeAwait"]
  /\ UNCHANGED <<req, resp, effects, lastVerdict, statusVars, enhancedVars, classifierVars, hashVars, homeVars>>

\* legacy route, line 108
LegacyRespondFresh(h) ==
  /\ pc[h] = "storeAwait"
  /\ resp' = [resp EXCEPT ![h] = VerdictResponse(local[h].value, False)]
  /\ pc' = [pc EXCEPT ![h] = "done"]
  /\ lastCall' = NoCall
  /\ UNCHANGED <<cache, req, local, effects, lastVerdict, statusVars, enhancedVars, classifierVars, hashVars, homeVars>>

\* the response is sent; the handler's frame is gone
Finish(h) ==
  /\ pc[h] = "done"
  /\ pc' = [pc EXCEPT ![h] = "idle"]
  /\ req' = [req EXCEPT ![h] = NoRequest]
  /\ local' = [local EXCEPT ![h] = NoLocal]
  /\ resp' = [resp EXCEPT ![h] = NoResponse]
  /\ effects' = [effects EXCEPT ![h] = NoEffects]
  /\ lastCall' = NoCall
  /\ lastVerdict' = IF req[h].route = "detect" /\ resp[h].status = 200
                    THEN [hash |-> req[h].hash, isReal |-> resp[h].isReal,
                          confidence |-> resp[h].confidence, force |-> req[h].force,
                          fileName |-> req[h].fileName, enhanced |-> req[h].enhanced,
                          threshold |-> req[h].threshold]
                    ELSE lastVerdict
  /\ UNCHANGED <<cache, statusVars, enhancedVars, classifierVars, hashVars, homeVars>>

(***************************************************************************)
(* The status handlers (GET).  Three copies exist: the GET of the detect   *)
(* route, the first GET of the legacy route file and the GET of the status *)
(* route in the same file.                                                 *)
(***************************************************************************)
StatusVariants == {"detect", "legacy", "status"}

Url(host, path) == [host |-> host, path |-> path]

StatusUrls(variant) ==
  IF variant = "status"
  THEN <<Url("localhost", "/health"), Url("127.0.0.1", "/health"),
         Url("localhost", "/"), Url("127.0.0.1", "/"),
         Url("localhost", "/api/detect"), Url("127.0.0.1", "/api/detect")>>
  ELSE <<Url("localhost", "/health"), Url("127.0.0.1", "/health"),
         Url("localhost", "/api/detect"), Url("127.0.0.1", "/api/detect")>>

\* A handler that probes every URL with GET, for comparison.
ProbeMethodGet(url) == "GET"

\* url.includes("/api/detect") ? "OPTIONS" : "GET"
ProbeMethod(url) == IF url.path = "/api/detect" THEN "OPTIONS" ELSE "GET"

Probe(url) == [url |-> url, method |-> ProbeMethod(url)]

\* what a fetch settles with: it rejects (network error, or aborted by the
\* timer), or it resolves with a response status
Rejected(why) == [kind |-> "rejected", why |-> why, status |-> 0]
Responded(status) == [kind |-> "response", why |-> "", status |-> status]

FetchOutcomes ==
  {Rejected("fetch failed"), Rejected("This operation was aborted")}
  \cup {Responded(st) : st \in {200, 204, 404, 500}}

\* response.ok
ResponseOk(status) == status >= 200 /\ status <= 299

\* response.ok || response.status === 204
ProbeSucceeded(outcome) ==
  outcome.kind = "response" /\ (ResponseOk(outcome.status) \/ outcome.status = 204)

\* the entry pushed to errorDetails
ErrorDetail(url, outcome) ==
  [url |-> url, why |-> outcome.why, status |-> outcome.status]

NoStatusResponse == [http |-> 0, status |-> "none", data |-> "none"]

\* An offline answer sent with the default status, for comparison.
OfflineResponseDefaultStatus(variant) ==
  [http |-> 200, status |-> "offline", data |-> "none"]

\* the answer after the loop when connected is false
OfflineResponse(variant) ==
  [http |-> IF variant = "legacy" THEN 500 ELSE 503, status |-> "offline", data |-> "none"]

\* the answer after the loop when connected is true; data is the parsed
\* body or the stand-in message
OnlineResponse(parsed) ==
  [http |-> 200, status |-> "online", data |-> IF parsed THEN "json" ELSE "message"]

InitStatus ==
  /\ gPc = "idle"
  /\ gVariant = "none"
  /\ gLog = <<>>
  /\ gDetails = <<>>
  /\ gConnected = FALSE
  /\ gResp = NoStatusResponse

\* A GET arrives; the loop issues the fetch of the first URL and awaits it.
GetStart ==
  /\ gPc = "idle"
  /\ \E v \in StatusVariants :
       /\ gVariant' = v
       /\ gLog' = <<Probe(StatusUrls(v)[1])>>
  /\ gDetails' = <<>>
  /\ gConnected' = FALSE
  /\ gResp' = NoStatusResponse
  /\ gPc' = "fetchAwait"
  /\ UNCHANGED <<uploadVars, enhancedVars, classifierVars, hashVars, homeVars>>

\* The awaited fetch settles.  On success the body is read next; on failure
\* the detail is pushed and the loop goes on to the next URL or ends.
FetchSettles ==
  /\ gPc = "fetchAwait"
  /\ \E outcome \in FetchOutcomes :
       IF ProbeSucceeded(outcome)
       THEN /\ gConnected' = TRUE
            /\ gPc' = "jsonAwait"
            /\ UNCHANGED <<gLog, gDetails, gResp>>
       ELSE /\ gDetails' = Append(gDetails, ErrorDetail(gLog[Len(gLog)].url, outcome))
            /\ gConnected' = gConnected
            /\ IF Len(gLog) < Len(StatusUrls(gVariant))
               THEN /\ gLog' = Append(gLog, Probe(StatusUrls(gVariant)[Len(gLog) + 1]))
                    /\ gPc' = "fetchAwait"
                    /\ gResp' = gResp
               ELSE /\ gLog' = gLog
                    /\ gPc' = "done"
                    /\ gResp' = OfflineResponse(gVariant)
  /\ UNCHANGED <<gVariant, uploadVars, enhancedVars, classifierVars, hashVars, homeVars>>

\* response.json() settles: parsed, or rejected and replaced by the message;
\* break, and the answer after the loop
BodySettles ==
  /\ gPc = "jsonAwait"
  /\ \E parsed \in BOOLEAN : gResp' = OnlineResponse(parsed)
  /\ gPc' = "done"
  /\ UNCHANGED <<gVariant, gLog, gDetails, gConnected, uploadVars, enhancedVars, classifierVars, hashVars, homeVars>>

GetFinish ==
  /\ gPc = "done"
  /\ gPc' = "idle"
  /\ gVariant' = "none"
  /\ gLog' = <<>>
  /\ gDetails' = <<>>
  /\ gConnected' = FALSE
  /\ gResp' = NoStatusResponse
  /\ UNCHANGED <<uploadVars, enhancedVars, classifierVars, hashVars, homeVars>>

NextStatus == GetStart \/ FetchSettles \/ BodySettles \/ GetFinish

(***************************************************************************)
(* enhancedClassifyImage with sendToBackend, await by await.               *)
(***************************************************************************)
BACKEND_API_URLS == <<Url("localhost", "/api/detect"), Url("127.0.0.1", "/api/detect")>>

\* A loop that POSTs to the first URL again, for comparison.
FirstUrlAgain(iteration) == BACKEND_API_URLS[1]

\* for (const url of BACKEND_API_URLS): the url of the nth iteration
UrlOfIteration(iteration) == BACKEND_API_URLS[iteration]

\* what the local analyses give in one call
EnhancedInput(standardResult, loc, confidenceThreshold, variation) ==
  [standardResult |-> standardResult, loc |-> loc,
   confidenceThreshold |-> confidenceThreshold, variation |-> variation]

LocAnime == [LocPlain EXCEPT !.flags = {"anime-style features"}]

LocOutdoorPortrait ==
  [LocPlain EXCEPT
     !.nat = [isNaturalImage |-> TRUE, details |-> <<Elem("natural lighting conditions")>>],
     !.face = [hasFace |-> TRUE, isRealHuman |-> TRUE, confidence |-> 8000,
               naturalFeatures |-> <<Elem("natural skin texture")>>,
               artificialFeatures |-> <<>>],
     !.portrait = [isPortraitPhoto |-> TRUE, isOutdoorPortrait |-> TRUE,
                   isStudioPortrait |-> FALSE]]

LocArtificialFace ==
  [LocPlain EXCEPT
     !.face = [hasFace |-> TRUE, isRealHuman |-> FALSE, confidence |-> 3000,
               naturalFeatures |-> <<>>,
               artificialFeatures |-> <<Elem("unnaturally smooth skin")>>],
     !.flags = {"perfect symmetry", "artificial textures", "digital artifacts"}]

LocalOutcomes ==
  {[standardResult |-> ClassificationResult(TRUE, 9000, 10000, 0), loc |-> LocPlain],
   [standardResult |-> ClassificationResult(FALSE, 10000, 10000, 10000), loc |-> LocPlain],
   [standardResult |-> ClassificationResult(FALSE, 9000, 0, 10000), loc |-> LocAnime],
   [standardResult |-> ClassificationResult(TRUE, 9000, 10000, 0), loc |-> LocOutdoorPortrait],
   [standardResult |-> ClassificationResult(FALSE, 9000, 0, 10000), loc |-> LocArtificialFace],
   [standardResult |-> ClassificationErrorResult, loc |-> LocPlain]}

EnhancedInputs ==
  {EnhancedInput(o.standardResult, o.loc, th, v) :
     o \in LocalOutcomes, th \in {6500, 9500, 9900}, v \in {-150, 150}}

ModelResult(prediction, modelName, weight) ==
  [prediction |-> prediction, model_name |-> modelName, weight |-> weight]

\* JSON bodies the detector may answer with status 200
BackendBodies ==
  {BackendJson(True, Num(9000), <<>>, NoFrequencyFeatures, <<>>, FALSE),
   BackendJson(False, Num(8000),
               <<ModelResult("AI", "faceforensics", 0), ModelResult("Real", "ensemble", 50)>>,
               FrequencyFeatures(40, 50, 2000), <<Elem("GAN fingerprint")>>, TRUE),
   BackendJson(True, Num(6000), <<>>, FrequencyFeatures(80, 50, 2000), <<>>, FALSE),
   BackendJson(False, Num(8600), <<>>, NoFrequencyFeatures, <<>>, FALSE),
   BackendJson(True, Undefined, <<>>, NoFrequencyFeatures, <<>>, FALSE),
   BackendJson(False, Num(8000),
               <<ModelResult("AI", "recurrent_cnn", 100), ModelResult("AI", MissingName, 0)>>,
               NoFrequencyFeatures, <<>>, FALSE),
   \* { "error": "No file part" } sent with status 200
   [BackendError EXCEPT !.is_real = Undefined, !.confidence = Undefined]}

\* what a POST to the detector settles with
BackendOutcomes ==
  {Rejected("fetch failed"), Rejected("This operation was aborted")}
  \cup {Responded(st) : st \in {200, 404, 500}}

NoInput == EnhancedInput(ClassificationErrorResult, LocPlain, 0, 0)

NoResult == [ClassificationErrorResult EXCEPT !.isReal = Undefined, !.confidence = Undefined]

InitEnhanced ==
  /\ ePc = "idle"
  /\ eIn = NoInput
  /\ eErrors = <<>>
  /\ eBackend = BackendError
  /\ eOut = NoResult
  /\ eTimer = FALSE
  /\ ePosts = <<>>

\* lines 75-104 and 636-668: classifyImage has resolved, sendToBackend
\* issues the POST to the first URL
EnhancedStart ==
  /\ ePc = "idle"
  /\ \E in \in EnhancedInputs : eIn' = in
  /\ ePc' = "fetchAwait"
  /\ eErrors' = <<>>
  /\ eBackend' = BackendError
  /\ eOut' = NoResult
  /\ eTimer' = TRUE
  /\ ePosts' = <<UrlOfIteration(1)>>
  /\ UNCHANGED <<uploadVars, statusVars, classifierVars, hashVars, homeVars>>

\* sendToBackend, lines 699-722: the catch of the loop body, then the next
\* URL; after the last URL the error object is returned and
\* enhancedClassifyImage runs to its return (lines 105-633)
AttemptFailed(detail) ==
  /\ eErrors' = Append(eErrors, detail)
  /\ IF Len(eErrors) + 1 < Len(BACKEND_API_URLS)
     THEN /\ ePc' = "fetchAwait"
          /\ eTimer' = TRUE
          /\ ePosts' = Append(ePosts, UrlOfIteration(Len(eErrors) + 2))
          /\ UNCHANGED <<eBackend, eOut>>
     ELSE /\ ePc' = "returned"
          /\ eTimer' = FALSE
          /\ ePosts' = ePosts
          /\ eBackend' = BackendError
          /\ eOut' = enhancedClassifyImage(eIn.standardResult, eIn.loc, BackendError,
                                           eIn.confidenceThreshold, eIn.variation)
  /\ UNCHANGED <<eIn, uploadVars, statusVars, classifierVars, hashVars, homeVars>>

\* lines 662-677: the awaited fetch settles
BackendFetchSettles ==
  /\ ePc = "fetchAwait"
  /\ \E outcome \in BackendOutcomes :
       CASE outcome.kind = "rejected" ->
              AttemptFailed(ErrorDetail(ePosts[Len(ePosts)], outcome))
         [] outcome.kind = "response" /\ ~ResponseOk(outcome.status) ->
              /\ ePc' = "textAwait"
              /\ eTimer' = FALSE
              /\ UNCHANGED <<eIn, eErrors, eBackend, eOut, ePosts, uploadVars, statusVars, classifierVars, hashVars, homeVars>>
         [] OTHER ->
              /\ ePc' = "jsonAwait"
              /\ eTimer' = FALSE
              /\ UNCHANGED <<eIn, eErrors, eBackend, eOut, ePosts, uploadVars, statusVars, classifierVars, hashVars, homeVars>>

\* lines 677-681: response.text() of a non-OK response settles, the error
\* is thrown
BackendTextSettles ==
  /\ ePc = "textAwait"
  /\ AttemptFailed(ErrorDetail(ePosts[Len(ePosts)], Rejected("Backend returned status")))

\* lines 684-696 and 105-633: response.json() settles.  A body that is not
\* JSON rejects; otherwise sendToBackend returns the body and
\* enhancedClassifyImage runs to its return.
BackendJsonSettles ==
  /\ ePc = "jsonAwait"
  /\ \/ AttemptFailed(ErrorDetail(ePosts[Len(ePosts)], Rejected("Unexpected token")))
     \/ \E body \in BackendBodies :
          /\ eBackend' = body
          /\ eOut' = enhancedClassifyImage(eIn.standardResult, eIn.loc, body,
                                           eIn.confidenceThreshold, eIn.variation)
          /\ ePc' = "returned"
          /\ UNCHANGED <<eIn, eErrors, eTimer, ePosts, uploadVars, statusVars, classifierVars, hashVars, homeVars>>

EnhancedFinish ==
  /\ ePc = "returned"
  /\ ePc' = "idle"
  /\ eIn' = NoInput
  /\ eErrors' = <<>>
  /\ eBackend' = BackendError
  /\ eOut' = NoResult
  /\ eTimer' = FALSE
  /\ ePosts' = <<>>
  /\ UNCHANGED <<uploadVars, statusVars, classifierVars, hashVars, homeVars>>

NextEnhanced ==
  \/ EnhancedStart
  \/ BackendFetchSettles
  \/ BackendTextSettles
  \/ BackendJsonSettles
  \/ EnhancedFinish

(***************************************************************************)
(* classifyImage called on its own, over the file names and the outcomes   *)
(* of the sub-analyses.                                                    *)
(***************************************************************************)
InitClassifier ==
  /\ cIn = NoClassifierInput
  /\ cOut = NoResult

\* one call of classifyImage, from the call to the settled promise
Classify ==
  /\ cOut = NoResult
  /\ \E ci \in ClassifierInputs :
       /\ cIn' = ci
       /\ cOut' = classifyImage(ci)
  /\ UNCHANGED <<uploadVars, statusVars, enhancedVars, hashVars, homeVars>>

ClassifyFinish ==
  /\ cOut # NoResult
  /\ cIn' = NoClassifierInput
  /\ cOut' = NoResult
  /\ UNCHANGED <<uploadVars, statusVars, enhancedVars, hashVars, homeVars>>

NextClassifier == Classify \/ ClassifyFinish

InitHash ==
  /\ hIn = <<>>
  /\ hOut = <<>>

\* two uploads: generateImageHash(buffer) for each of the two buffers
HashCall ==
  /\ hOut = <<>>
  /\ \E a \in HashBuffers, b \in HashBuffers :
       /\ hIn' = <<a, b>>
       /\ hOut' = <<generateImageHash(a), generateImageHash(b)>>
  /\ UNCHANGED <<uploadVars, statusVars, enhancedVars, classifierVars, homeVars>>

HashFinish ==
  /\ hOut # <<>>
  /\ hIn' = <<>>
  /\ hOut' = <<>>
  /\ UNCHANGED <<uploadVars, statusVars, enhancedVars, classifierVars, homeVars>>

NextHash == HashCall \/ HashFinish

(***************************************************************************)
(* The Home page: handleFileChange, handleSubmit with its progress timer,  *)
(* and resetForm.                                                          *)
(***************************************************************************)
\* submissions considered in one run
MaxSubmissions == 2

\* the callback of the progress timer: hold at 90, else add 5, 3, 2 or 1
ProgressUpdate(prev) ==
  IF prev >= 90 THEN 90
  ELSE prev + (IF prev < 30 THEN 5 ELSE IF prev < 60 THEN 3 ELSE IF prev < 80 THEN 2 ELSE 1)

\* what the POST of handleSubmit settles with: a response with an OK or an
\* error status, or a rejection
SubmitOutcomes == {"ok", "notOk", "rejected"}

\* what response.json() settles with: an object with an error field, an
\* object without one, or a rejection because the body is not JSON
SubmitBodies == {"withError", "withoutError", "notJson"}

InitHome ==
  /\ file = FALSE
  /\ isLoading = FALSE
  /\ progress = 0
  /\ error = "null"
  /\ detectionResult = "null"
  /\ homePc = "idle"
  /\ intervals = {}
  /\ progressInterval = 0

handleFileChange ==
  /\ file' = TRUE
  /\ error' = "null"
  /\ detectionResult' = "null"
  /\ UNCHANGED <<isLoading, progress, homePc, intervals, progressInterval>>
  /\ UNCHANGED <<uploadVars, statusVars, enhancedVars, classifierVars, hashVars>>

\* handleSubmit up to its first await; the submit button is disabled while
\* isLoading
handleSubmit ==
  /\ ~isLoading
  /\ homePc \in {"idle", "ended"}
  /\ progressInterval < MaxSubmissions
  /\ IF ~file
     THEN UNCHANGED homeVars
     ELSE /\ isLoading' = TRUE
          /\ progress' = 0
          /\ error' = "null"
          /\ detectionResult' = "null"
          /\ progressInterval' = progressInterval + 1
          /\ intervals' = intervals \cup {progressInterval + 1}
          /\ homePc' = "fetchAwait"
          /\ file' = file
  /\ UNCHANGED <<uploadVars, statusVars, enhancedVars, classifierVars, hashVars>>

\* one call of the callback of a running progress timer
ProgressTick ==
  /\ intervals # {}
  /\ progress' = ProgressUpdate(progress)
  /\ UNCHANGED <<file, isLoading, error, detectionResult, homePc, intervals, progressInterval>>
  /\ UNCHANGED <<uploadVars, statusVars, enhancedVars, classifierVars, hashVars>>

\* the await of fetch settles: lines 197-198 after a response, the catch and
\* finally blocks after a rejection
SubmitFetchSettles ==
  /\ homePc = "fetchAwait"
  /\ \E outcome \in SubmitOutcomes :
       IF outcome = "rejected"
       THEN /\ error' = "Failed to fetch"
            /\ isLoading' = FALSE
            /\ homePc' = "ended"
            /\ UNCHANGED <<progress, intervals>>
       ELSE /\ intervals' = intervals \ {progressInterval}
            /\ progress' = 100
            /\ homePc' = IF outcome = "ok" THEN "dataAwait" ELSE "errorDataAwait"
            /\ UNCHANGED <<error, isLoading>>
  /\ UNCHANGED <<file, detectionResult, progressInterval>>
  /\ UNCHANGED <<uploadVars, statusVars, enhancedVars, classifierVars, hashVars>>

\* the await of response.json() settles, then the finally block
SubmitJsonSettles ==
  /\ homePc \in {"dataAwait", "errorDataAwait"}
  /\ \E body \in SubmitBodies :
       /\ detectionResult' = IF homePc = "dataAwait" /\ body # "notJson" THEN "data" ELSE detectionResult
       /\ error' = CASE body = "notJson" -> "Unexpected token"
                      [] homePc = "dataAwait" -> error
                      [] body = "withError" -> "errorData.error"
                      [] OTHER -> "Failed to process file"
  /\ isLoading' = FALSE
  /\ homePc' = "ended"
  /\ UNCHANGED <<file, progress, intervals, progressInterval>>
  /\ UNCHANGED <<uploadVars, statusVars, enhancedVars, classifierVars, hashVars>>

resetForm ==
  /\ file' = FALSE
  /\ detectionResult' = "null"
  /\ progress' = 0
  /\ error' = "null"
  /\ UNCHANGED <<isLoading, homePc, intervals, progressInterval>>
  /\ UNCHANGED <<uploadVars, statusVars, enhancedVars, classifierVars, hashVars>>

NextHome ==
  \/ handleFileChange
  \/ handleSubmit
  \/ ProgressTick
  \/ SubmitFetchSettles
  \/ SubmitJsonSettles
  \/ resetForm

vars == <<uploadVars, statusVars, enhancedVars, classifierVars, hashVars, homeVars>>

Step(h, requests, scenarios) ==
  \/ Receive(h, requests)
  \/ CheckCache(h)
  \/ RespondCached(h)
  \/ Analyze(h, scenarios)
  \/ RespondError(h)
  \/ LegacyHas(h)
  \/ LegacyAfterHas(h)
  \/ LegacyRespondCached(h)
  \/ LegacyStore(h)
  \/ LegacyRespondFresh(h)
  \/ Finish(h)

\* Uploads handled one after the other, over every request and scenario.
Init == InitUpload /\ InitStatus /\ InitEnhanced /\ InitClassifier /\ InitHash /\ InitHome

Next == Step(1, UploadRequests, UploadScenarios)

Spec == Init /\ [][Next]_vars

\* Uploads handled concurrently: Node runs one handler at a time and
\* switches between handlers at their awaits.
ConcurrentRequests ==
  {DetectRequest("file", "upload.bin", h, FALSE, TRUE, 6500) : h \in UploadHashes}
  \cup {DetectRequest("nofile", "", 0, FALSE, TRUE, 6500), LegacyRequest("file")}

ConcurrentScenarios == {ScPhoto, ScSharpFails}

NextConcurrent == \E h \in Handlers : Step(h, ConcurrentRequests, ConcurrentScenarios)

SpecConcurrent == Init /\ [][NextConcurrent]_vars

\* The cache module called directly, next to the handlers: any caller may
\* store under any key and clear at any time.
CallKeys == UploadHashes

CallValues == {ClassificationErrorResult}

StoreCall ==
  \E k \in CallKeys, v \in CallValues :
    /\ cache' = storeAnalysisInCache(cache, k, v)
    /\ lastCall' = [op |-> "store", key |-> k, value |-> v]
    /\ UNCHANGED <<pc, req, local, resp, effects, lastVerdict, statusVars, enhancedVars, classifierVars, hashVars, homeVars>>

ClearCall ==
  /\ cache' = clearAnalysisCache(cache)
  /\ lastCall' = [op |-> "clear", key |-> 0, value |-> Undefined]
  /\ UNCHANGED <<pc, req, local, resp, effects, lastVerdict, statusVars, enhancedVars, classifierVars, hashVars, homeVars>>

CacheRequests ==
  {DetectRequest("file", "upload.bin", MAX_CACHE_SIZE + 1, FALSE, TRUE, 6500), LegacyRequest("file")}

NextCache ==
  \/ \E h \in Handlers : Step(h, CacheRequests, ConcurrentScenarios)
  \/ StoreCall
  \/ ClearCall

SpecCache == Init /\ [][NextCache]_vars

SpecStatus == Init /\ [][NextStatus]_vars

SpecEnhanced == Init /\ [][NextEnhanced]_vars

SpecClassifier == Init /\ [][NextClassifier]_vars
SpecHash == Init /\ [][NextHash]_vars
SpecHome == Init /\ [][NextHome]_vars

(***************************************************************************)
(* Properties of the cache (SpecCache).                                    *)
(***************************************************************************)
\* C1: the cache never holds more than 100 entries (and no key twice),
\* whatever stores and clears the handlers and other callers interleave;
\* storing a key that is not present into a cache of 100 entries leaves
\* exactly 100 entries.
C1_CacheBounded ==
  /\ [](Len(cache) <= MAX_CACHE_SIZE /\ Cardinality(CacheKeys(cache)) = Len(cache))
  /\ [][(/\ lastCall'.op = "store"
         /\ Len(cache) = MAX_CACHE_SIZE
         /\ lastCall'.key \notin CacheKeys(cache)) => Len(cache') = MAX_CACHE_SIZE]_vars

\* a 101st key has just been stored into the full cache
C1_StoredIntoFullCache ==
  /\ lastCall.op = "store"
  /\ lastCall.key = MAX_CACHE_SIZE + 1
  /\ Len(cache) = MAX_CACHE_SIZE
  /\ cache[1].key = 2
  /\ cache[MAX_CACHE_SIZE].key = MAX_CACHE_SIZE + 1

\* C2: right after storeAnalysisInCache(h, r), hasAnalysisInCache(h) is
\* true and getAnalysisFromCache(h) returns r, eviction or not.
C2_StoredIsReadBack ==
  lastCall.op = "store" =>
    /\ hasAnalysisInCache(cache, lastCall.key)
    /\ getAnalysisFromCache(cache, lastCall.key) = lastCall.value

\* a store that evicted the oldest entry, and whose value is read back
C2_ReadBackAfterEviction ==
  /\ lastCall.op = "store"
  /\ Len(cache) = MAX_CACHE_SIZE
  /\ ~hasAnalysisInCache(cache, LegacyHash)
  /\ cache[Len(cache)].key = lastCall.key
  /\ getAnalysisFromCache(cache, lastCall.key) = lastCall.value

\* C3: a key leaves the cache only by a clear or by a store that pushes the
\* size above 100, and then it is the first key in insertion order; a new
\* key is inserted last and the others keep their order; storing an
\* existing key replaces its value and leaves every key where it was.
C3_EvictionOrder ==
  [][LET stored   == lastCall'.op = "store"
         fresh    == stored /\ lastCall'.key \notin CacheKeys(cache)
         overflow == fresh /\ Len(cache) + 1 > MAX_CACHE_SIZE
         entry    == [key |-> lastCall'.key, value |-> lastCall'.value]
     IN  /\ \A k \in CacheKeys(cache) \ CacheKeys(cache') :
              \/ lastCall'.op = "clear"
              \/ overflow /\ k = cache[1].key
         /\ overflow => cache' = Append(Tail(cache), entry)
         /\ (fresh /\ ~overflow) => cache' = Append(cache, entry)
         /\ (stored /\ ~fresh) =>
              /\ Len(cache') = Len(cache)
              /\ \A i \in 1..Len(cache) : cache'[i].key = cache[i].key
              /\ getAnalysisFromCache(cache', lastCall'.key) = lastCall'.value
    ]_vars

\* the oldest key of a full cache has just been stored again and is still
\* the first one
C3_RestoredKeyStaysOldest ==
  /\ lastCall.op = "store"
  /\ lastCall.key = 2
  /\ Len(cache) = MAX_CACHE_SIZE
  /\ cache[1] = [key |-> 2, value |-> lastCall.value]
  /\ cache[MAX_CACHE_SIZE].key = MAX_CACHE_SIZE + 1

(***************************************************************************)
(* Properties of the upload handlers (Spec, SpecConcurrent).               *)
(***************************************************************************)
AnalysisErrors == {"sharp", "classifier"}

C5_NoFileRejected ==
  /\ [](\A h \in Handlers :
          req[h].form = "nofile" =>
            /\ pc[h] = "done"
            /\ resp[h].status = 400
            /\ resp[h].error
            /\ resp[h].isReal = Undefined
            /\ effects[h] = NoEffects)
  /\ [][\A h \in Handlers :
          (pc[h] = "idle" /\ req'[h].form = "nofile") =>
            (cache' = cache /\ lastCall'.op = "none")]_vars

\* a request without a file has been answered while the cache is full
C5_NoFileAnswered ==
  \E h \in Handlers :
    /\ req[h].form = "nofile"
    /\ resp[h].status = 400
    /\ Len(cache) = MAX_CACHE_SIZE

\* C7: every verdict response, fresh or cached, carries a number between 0
\* and 100 as its confidence.
C7_ConfidenceInRange ==
  \A h \in Handlers :
    (pc[h] = "done" /\ resp[h].status = 200) =>
      /\ IsNumber(resp[h].confidence)
      /\ resp[h].confidence.v >= 0
      /\ resp[h].confidence.v <= 10000

\* C10: a handler that takes the cache-hit path answers with a result that
\* was stored under its hash, never with undefined.
C10_HitAnswersStoredResult ==
  \A h \in Handlers :
    (pc[h] = "done" /\ local[h].hit) =>
      /\ local[h].value # Undefined
      /\ resp[h].isReal # Undefined

\* C12: two buffers whose base64 texts agree on the first 1000 characters get
\* the same cache key from generateImageHash, whatever bytes follow.
C12_SamePrefixSameKey ==
  hOut # <<>> =>
    (SamePrefix(ToBase64(hIn[1]), ToBase64(hIn[2]), HASH_PREFIX_LENGTH) => hOut[1] = hOut[2])

\* two buffers of different lengths that differ only after the prefix share a key
C12_LongerBufferSameKey ==
  /\ hOut # <<>>
  /\ Len(hIn[1]) = PrefixBytes
  /\ Len(hIn[2]) = PrefixBytes + 2
  /\ SubSeq(hIn[2], 1, PrefixBytes) = hIn[1]
  /\ hOut[1] = hOut[2]

C15_HitServesStoredResult ==
  [][\A h \in Handlers :
       /\ (/\ pc[h] = "arrayBuffer" /\ pc'[h] # "arrayBuffer"
           /\ req[h].route = "detect"
           /\ ~req[h].force
           /\ req[h].hash \in CacheKeys(cache))
          => /\ pc'[h] = "hitDelay"
             /\ \E i \in 1..Len(cache) :
                  cache[i].key = req[h].hash /\ local'[h].value = cache[i].value
             /\ cache' = cache
             /\ effects'[h] = NoEffects
       /\ (pc[h] = "hitDelay" /\ pc'[h] # "hitDelay")
          => /\ pc'[h] = "done"
             /\ resp'[h].status = 200
             /\ resp'[h].isReal = ToJson(local[h].value.isReal)
             /\ resp'[h].confidence = ToJson(local[h].value.confidence)
             /\ cache' = cache
             /\ effects'[h] = NoEffects]_vars

\* a hit was answered with the stored verdict while the cache was full
C15_HitAnswered ==
  \E h \in Handlers :
    /\ pc[h] = "done"
    /\ req[h].route = "detect"
    /\ local[h].hit
    /\ resp[h].status = 200
    /\ resp[h].isReal = True
    /\ effects[h] = NoEffects
    /\ Len(cache) = MAX_CACHE_SIZE

\* what C18 says of one upload: initial, deep (null when not run) and
\* combined analysis
CombinedAsClaimed(initial, deep, result) ==
  /\ (deep # Null) <=> /\ initial.realScore - initial.aiScore < 2000
                       /\ initial.aiScore - initial.realScore < 2000
  /\ deep = Null => result = initial
  /\ deep # Null =>
       /\ (result.isReal = True) <=> (initial.isReal = True /\ deep.isReal = True)
       /\ (initial.isReal = False \/ deep.isReal = False) =>
            /\ result.isReal = False
            /\ (IsNumber(initial.confidence) /\ IsNumber(deep.confidence)) =>
                 /\ result.confidence \in {initial.confidence, deep.confidence}
                 /\ result.confidence.v >= initial.confidence.v
                 /\ result.confidence.v >= deep.confidence.v

\* C18: the deep analysis runs exactly when the initial scores differ by
\* less than 20; the combined verdict is real only if both analyses said
\* real, and when either said AI it is AI with the larger of the two
\* confidences.
C18_DeepAnalysisCombined ==
  \A h \in Handlers :
    (pc[h] = "done" /\ local[h].analysisResult # Undefined) =>
      CombinedAsClaimed(local[h].initialAnalysis, local[h].deepAnalysis,
                        local[h].analysisResult)

\* the initial analysis said real, the deep one AI with more confidence
C18_DeepOverruledInitial ==
  \E h \in Handlers :
    /\ pc[h] = "done"
    /\ local[h].analysisResult # Undefined
    /\ local[h].deepAnalysis # Null
    /\ local[h].initialAnalysis.isReal = True
    /\ local[h].deepAnalysis.isReal = False
    /\ local[h].analysisResult.isReal = False
    /\ local[h].analysisResult.confidence = local[h].deepAnalysis.confidence
    /\ local[h].deepAnalysis.confidence.v > local[h].initialAnalysis.confidence.v

\* C22: a request with force_reanalyze = "true" never takes the cache-hit
\* path; when its fresh analysis succeeds the entry under the upload's hash
\* holds the result just answered (an existing entry is replaced in place),
\* and the next request for that hash that hits the cache is served it.
C22_ForcedReplacesEntry ==
  [][\A h \in Handlers :
       /\ (/\ pc[h] = "arrayBuffer" /\ pc'[h] # "arrayBuffer"
           /\ req[h].route = "detect" /\ req[h].force)
          => pc'[h] = "analysis"
       /\ (pc[h] = "analysis" /\ pc'[h] = "done" /\ req[h].force)
          => /\ effects'[h].classifier
             /\ resp'[h].status = 200
             /\ \E i \in 1..Len(cache') :
                  /\ cache'[i].key = req[h].hash
                  /\ ToJson(cache'[i].value.isReal) = resp'[h].isReal
                  /\ ToJson(cache'[i].value.confidence) = resp'[h].confidence
             /\ req[h].hash \in CacheKeys(cache) =>
                  [i \in 1..Len(cache') |-> cache'[i].key] = [i \in 1..Len(cache) |-> cache[i].key]
       /\ (/\ pc[h] = "arrayBuffer" /\ pc'[h] = "hitDelay"
           /\ lastVerdict.force /\ lastVerdict.hash = req[h].hash)
          => ToJson(local'[h].value.isReal) = lastVerdict.isReal]_vars

\* the cached real verdict was replaced by a forced analysis that said AI,
\* and a request without force_reanalyze was answered AI from the cache
C22_NewResultServed ==
  \E h \in Handlers :
    /\ pc[h] = "done"
    /\ req[h].route = "detect" /\ ~req[h].force
    /\ local[h].hit
    /\ lastVerdict.force /\ lastVerdict.hash = req[h].hash
    /\ WarmResult.isReal = True
    /\ req[h].hash \in CacheKeys(WarmCache(MAX_CACHE_SIZE))
    /\ resp[h].isReal = False

\* C23: no step of a request that ends in HTTP 500 writes the cache.  A
\* step that changes the cache belongs to a request that answers 200 (at once
\* in the detect route, at the next step in the legacy route); the steps into
\* and out of the catch block leave the cache as it is, so a hash that was
\* absent stays absent.
C23_ErrorLeavesCache ==
  [][\A h \in Handlers :
       /\ (pc'[h] # pc[h] /\ cache' # cache)
          => \/ pc'[h] = "done" /\ resp'[h].status = 200
             \/ pc'[h] = "storeAwait"
       /\ (pc[h] = "storeAwait" /\ pc'[h] # pc[h])
          => pc'[h] = "done" /\ resp'[h].status = 200
       /\ (pc'[h] # pc[h] /\ pc'[h] = "errorDelay") => cache' = cache
       /\ (pc'[h] # pc[h] /\ pc'[h] = "done" /\ resp'[h].status = 500)
          => /\ cache' = cache
             /\ req[h].hash \notin CacheKeys(cache) => req[h].hash \notin CacheKeys(cache')]_vars

\* the analysis of an upload that is not cached failed and was answered 500
C23_FailedUploadNotCached ==
  \E h \in Handlers :
    /\ pc[h] = "done"
    /\ req[h].route = "detect" /\ req[h].form = "file"
    /\ resp[h].status = 500
    /\ local[h].error = "classifier"
    /\ req[h].hash \notin CacheKeys(cache)

\* C24: a cache hit of the detect route is decided by the content hash alone.
\* Whatever file name, enhanced-mode flag and confidence threshold a
\* non-forced request carries, it takes the hit path exactly when its hash is
\* a key of the cache, and when the response last given for that hash was
\* computed or served under other values of those fields, the hit is answered
\* with the same verdict and confidence.
C24_HitDecidedByHashAlone ==
  [][\A h \in Handlers :
       /\ (/\ pc[h] = "arrayBuffer" /\ pc'[h] # "arrayBuffer"
           /\ req[h].route = "detect"
           /\ ~req[h].force)
          => (pc'[h] = "hitDelay" <=> req[h].hash \in CacheKeys(cache))
       /\ (/\ pc[h] = "hitDelay" /\ pc'[h] = "done"
           /\ lastVerdict.hash = req[h].hash)
          => /\ resp'[h].status = 200
             /\ resp'[h].isReal = lastVerdict.isReal
             /\ resp'[h].confidence = lastVerdict.confidence]_vars

\* a hit answered a request whose file name, mode and threshold all differ
\* from those of the request that was answered before for the same hash
C24_HitUnderOtherFields ==
  \E h \in Handlers :
    /\ pc[h] = "done"
    /\ req[h].route = "detect"
    /\ local[h].hit
    /\ lastVerdict.hash = req[h].hash
    /\ lastVerdict.fileName # req[h].fileName
    /\ lastVerdict.enhanced # req[h].enhanced
    /\ lastVerdict.threshold # req[h].threshold
    /\ resp[h].isReal = lastVerdict.isReal
    /\ resp[h].confidence = lastVerdict.confidence

(***************************************************************************)
(* Properties of enhancedClassifyImage (SpecEnhanced).                     *)
(***************************************************************************)
\* the names of the features that come from the backend
BackendFeatureNames == {"Backend", "Frequency Domain Analysis", "Manipulation Heatmap"}

\* what the local steps alone make of an input: the scores and lists of the
\* standard classification and the local checks, the cascade's verdict, the
\* threshold and the clamp
LocalOnly(in) ==
  EnhancedResult(
    LocalChecks(StartScores(in.standardResult), in.loc),
    ApplyThreshold(
      [isReal |-> Bool(DecisionCascade(LocalChecks(StartScores(in.standardResult), in.loc).real,
                                       LocalChecks(StartScores(in.standardResult), in.loc).ai,
                                       in.loc).isReal),
       confidence |-> Num(DecisionCascade(LocalChecks(StartScores(in.standardResult), in.loc).real,
                                          LocalChecks(StartScores(in.standardResult), in.loc).ai,
                                          in.loc).confidence)],
      in.confidenceThreshold),
    in.variation)

\* C6: when every attempt to reach the detector failed, was aborted or met
\* a non-OK status, enhancedClassifyImage returns a verdict, and its
\* scores, lists and decision are those of the local steps alone.
C6_UnreachableGivesLocalVerdict ==
  (ePc = "returned" /\ Len(eErrors) = Len(BACKEND_API_URLS)) =>
    /\ eOut.isReal \in {True, False}
    /\ IsNumber(eOut.confidence)
    /\ eOut = LocalOnly(eIn)
    /\ \A i \in 1..Len(eOut.evaluatedFeatures) :
         eOut.evaluatedFeatures[i].name \notin BackendFeatureNames

\* both URLs failed, one by a rejected fetch and one by a non-OK status,
\* and the call has returned for a portrait
C6_ReturnedWithoutBackend ==
  /\ ePc = "returned"
  /\ Len(eErrors) = Len(BACKEND_API_URLS)
  /\ eErrors[1].why = "This operation was aborted"
  /\ eErrors[2].why = "Backend returned status"
  /\ eIn.loc = LocOutdoorPortrait
  /\ eOut.isReal = True

\* C13: every await of sendToBackend (the fetch, the text of a non-OK
\* response, the JSON body) is made while the abort timer of the attempt is
\* armed, so that a detector that stops answering cannot hold it forever.
C13_EveryAwaitHasAbortTimer ==
  ePc \in {"fetchAwait", "textAwait", "jsonAwait"} => eTimer

\* C16: when processing the detector's response throws part-way (an entry
\* of model_results without model_name), enhancedClassifyImage returns what it
\* returns when no backend result was received: the same scores, feature and
\* artifact lists, verdict and confidence.
C16_ThrowGivesFrontendOnly ==
  (/\ ePc = "returned"
   /\ ~eBackend.error
   /\ \E i \in 1..Len(eBackend.model_results) :
        eBackend.model_results[i].model_name = MissingName)
  => eOut = LocalOnly(eIn)

\* C17: when the detector answered without error and with a confidence
\* above 85, the verdict of enhancedClassifyImage is the detector's is_real,
\* whatever confidenceThreshold the caller passed.
C17_ConfidentBackendDecides ==
  (/\ ePc = "returned"
   /\ ~eBackend.error
   /\ JsGt(eBackend.confidence, Num(8500)))
  => eOut.isReal = eBackend.is_real

\* the verdict and confidence of a call when it reaches the threshold step
\* (lines 436-590), and what the step makes of them
DecisionBeforeThreshold(in, backendResult) ==
  Decide(DecisionCascade(
           LocalChecks(IntegrateBackend(StartScores(in.standardResult), backendResult), in.loc).real,
           LocalChecks(IntegrateBackend(StartScores(in.standardResult), backendResult), in.loc).ai,
           in.loc),
         backendResult)

ThresholdStepAsClaimed(before, after, confidenceThreshold, returned) ==
  /\ returned.isReal = after.isReal
  /\ after.isReal = False => ~JsLt(after.confidence, Num(confidenceThreshold - 1000))
  /\ (before.isReal = False /\ JsLt(before.confidence, Num(confidenceThreshold - 1000)))
       => /\ after.isReal = True
          /\ IsNumber(after.confidence)
          /\ after.confidence.v >= 6500
  /\ before.isReal = True => after = before

\* C19: after the threshold step of enhancedClassifyImage an AI verdict is
\* never kept with a confidence below confidenceThreshold - 10: it has been
\* flipped to real with a confidence of at least 65; a real verdict is never
\* changed by the step.
C19_ThresholdStep ==
  ePc = "returned" =>
    ThresholdStepAsClaimed(
      DecisionBeforeThreshold(eIn, eBackend),
      ApplyThreshold(DecisionBeforeThreshold(eIn, eBackend), eIn.confidenceThreshold),
      eIn.confidenceThreshold, eOut)

\* an AI verdict of the detector (confidence 86) was flipped under threshold 99
C19_LowConfidenceAiFlipped ==
  /\ ePc = "returned"
  /\ ~eBackend.error
  /\ DecisionBeforeThreshold(eIn, eBackend).isReal = False
  /\ DecisionBeforeThreshold(eIn, eBackend).confidence = Num(8600)
  /\ eIn.confidenceThreshold = 9900
  /\ eOut.isReal = True

\* C21: within one sendToBackend call the URLs are POSTed to in list order,
\* each at most once; a URL is POSTed to only after every earlier one has
\* failed, and none after the call has returned a response.
C21_EachUrlOnceInOrder ==
  ePc # "idle" =>
    /\ Len(ePosts) <= Len(BACKEND_API_URLS)
    /\ \A i \in 1..Len(ePosts) : ePosts[i] = BACKEND_API_URLS[i]
    /\ \A i, j \in 1..Len(ePosts) : i # j => ePosts[i] # ePosts[j]
    /\ \A i \in 1..Len(eErrors) : eErrors[i].url = ePosts[i]
    /\ Len(ePosts) = Len(eErrors) + (IF ePc = "returned" /\ Len(eErrors) = Len(BACKEND_API_URLS)
                                     THEN 0 ELSE 1)

\* the first URL failed and the second one answered: two POSTs, one error
C21_SecondUrlAnswered ==
  /\ ePc = "returned"
  /\ Len(ePosts) = 2
  /\ Len(eErrors) = 1
  /\ ~eBackend.error
  /\ eOut.enhanced

\* C25: whenever enhancedClassifyImage returns, the confidence of its result
\* is a number between 50 and 98 inclusive, for every local analysis and
\* every response of the detector, including one without confidence or
\* is_real.
C25_ConfidenceWithin50And98 ==
  ePc = "returned" =>
    /\ IsNumber(eOut.confidence)
    /\ eOut.confidence.v >= 5000
    /\ eOut.confidence.v <= 9800

(***************************************************************************)
(* Properties of classifyImage (SpecClassifier).                           *)
(***************************************************************************)
\* C14: classifyImage always settles by resolving.  When something inside
\* its try block throws, the value is the default (AI, confidence 70, the one
\* artifact "classification error"); otherwise it is a verdict, and it is the
\* verdict the same call gives when each sub-analysis that failed had
\* returned its fallback value instead.
C14_FailureGivesFallback ==
  cOut # NoResult =>
    IF cIn.throws
    THEN /\ cOut.isReal = False
         /\ cOut.confidence = Num(7000)
         /\ cOut.detectedArtifacts = <<Elem("classification error")>>
    ELSE /\ cOut.isReal \in {True, False}
         /\ cOut.confidence.t = "num"
         /\ cOut = classifyImage(
                     [cIn EXCEPT !.sub = [a \in SubAnalyses |->
                                            IF cIn.sub[a] = "failed" THEN SubFallback(a)
                                            ELSE cIn.sub[a]]])

\* the texture analysis failed and the verdict counts natural textures
C14_TextureAnalysisFailed ==
  /\ cOut # NoResult
  /\ ~cIn.throws
  /\ cIn.sub["texture"] = "failed"
  /\ \E i \in 1..Len(cOut.naturalElements) :
       cOut.naturalElements[i] = Elem("natural texture patterns")
  /\ cOut.isReal = False

\* C20: when the file name contains a real-world brand, or a studio or an
\* outdoor portrait is detected, and nothing throws, classifyImage returns
\* isReal = true with confidence 90, whatever the cyberpunk detection, the
\* score ratio and the AI indicators say.
C20_StrongRealIndicatorsWin ==
  (/\ cOut # NoResult
   /\ ~cIn.throws
   /\ cIn.fileName.brand \/ cIn.studio \/ cIn.outdoor)
  => /\ cOut.isReal = True
     /\ cOut.confidence = Num(9000)

\* a studio portrait was found in an image with the cyberpunk aesthetic, AI
\* artifacts and every sub-analysis on the AI side
C20_StudioPortraitAgainstAll ==
  /\ cOut # NoResult
  /\ ~cIn.throws
  /\ cIn.studio /\ ~cIn.outdoor /\ ~cIn.fileName.brand
  /\ cIn.cyberpunk
  /\ cIn.fileName.aiTerms
  /\ cIn.sub = SubAllAi
  /\ cOut.aiScore > cOut.realScore
  /\ cOut.isReal = True

\* C26: on its non-error path classifyImage returns realScore and aiScore
\* that are each 0 or 100, and the borderline test of the upload handler,
\* |realScore - aiScore| < 20, holds for that result exactly when both the
\* real side and the AI side received at least one indicator.
C26_ScoresZeroOrHundred ==
  (cOut # NoResult /\ ~cIn.throws) =>
    /\ cOut.realScore \in {0, 10000}
    /\ cOut.aiScore \in {0, 10000}
    /\ isBorderlineCase(cOut) <=>
         /\ \E i \in 1..Len(ClassifierSteps(cIn)) : ClassifierSteps(cIn)[i].side = "real"
         /\ \E i \in 1..Len(ClassifierSteps(cIn)) : ClassifierSteps(cIn)[i].side = "ai"

(***************************************************************************)
(* Properties of the status handlers (SpecStatus).                         *)
(***************************************************************************)
\* C8: when every probe threw, was aborted or met a status that is neither
\* OK nor 204, the handler answers status "offline" with a non-2xx code.
C8_UnreachableIsOffline ==
  (gPc = "done" /\ Len(gDetails) = Len(StatusUrls(gVariant))) =>
    /\ gResp.status = "offline"
    /\ gResp.http >= 100
    /\ ~(gResp.http >= 200 /\ gResp.http <= 299)

\* every probe of the legacy handler failed and it has answered
C8_AllProbesFailed ==
  /\ gPc = "done"
  /\ gVariant = "legacy"
  /\ Len(gDetails) = 4
  /\ gDetails[4].status = 404
  /\ gResp.http = 500

\* C9: the probes go out one at a time and in list order, OPTIONS to the
\* /api/detect URLs and GET to the others; no probe follows a successful
\* one; the answer is "online" with 200 exactly when a probe succeeded.
C9_ProbeOrder ==
  gPc # "idle" =>
    /\ Len(gLog) <= Len(StatusUrls(gVariant))
    /\ \A i \in 1..Len(gLog) :
         /\ gLog[i].url = StatusUrls(gVariant)[i]
         /\ gLog[i].method = IF gLog[i].url.path = "/api/detect" THEN "OPTIONS" ELSE "GET"
    \* the probes before the last one have all failed
    /\ Len(gLog) = Len(gDetails) + (IF gPc = "fetchAwait" \/ gConnected THEN 1 ELSE 0)
    /\ \A i \in 1..Len(gDetails) : gDetails[i].url = gLog[i].url
    /\ gPc = "done" =>
         /\ gConnected <=> (gResp.status = "online" /\ gResp.http = 200)
         /\ gConnected <=> (gResp.status = "online" \/ gResp.http = 200)

\* the status route found the detector at its fifth URL, by OPTIONS
C9_OnlineAtFifthProbe ==
  /\ gPc = "done"
  /\ gVariant = "status"
  /\ Len(gLog) = 5
  /\ gLog[5].method = "OPTIONS"
  /\ gLog[4].method = "GET"
  /\ gResp.status = "online"

(***************************************************************************)
(* Properties of the Home page (SpecHome).                                 *)
(***************************************************************************)
\* C27: when a submission of the Home page has ended, after a response with
\* an OK or an error status or after a failed request, isLoading is false
\* and the progress timer that handleSubmit started is no longer running;
\* while the request is pending progress is at most 90.
C27_SubmissionEndsCleanly ==
  /\ homePc = "ended" => (~isLoading /\ progressInterval \notin intervals)
  /\ homePc = "fetchAwait" => progress <= 90

=============================================================================
